---------------------------- MODULE Spec2Model ----------------------------
(***************************************************************************)
(* A model of the WhatsApp appointment-booking backend: the webhook        *)
(* request handler (routes.py) with its idempotency gate and booking       *)
(* state machine, the tables it works on (db.py), the Postgres-backed job  *)
(* queue (jobs.py) and the worker loop with its sweeper (worker.py).       *)
(*                                                                         *)
(* Every database call of the code is one transaction of its own           *)
(* (db_conn(), execute, commit, close), so the model takes one call, or a  *)
(* run of calls of one handler, as one atomic step and lets the steps of   *)
(* concurrent request handlers and worker processes interleave.            *)
(***************************************************************************)
EXTENDS Integers, Sequences, FiniteSets, TLC

(***************************************************************************)
(* Bounds of the model.                                                    *)
(***************************************************************************)
NumWorkers == 2      \* worker processes running worker.main
MaxInflight == 2     \* webhook requests being handled at the same time
MaxAppointments == 2 \* rows of the appointments table
MaxJobs == 3         \* rows of the jobs table
MaxNow == 100000     \* the clock stops advancing past this second
MaxFailures == 1     \* times the environment fails one job (queue specifications)
MaxTable == 2        \* rows of a jobs table drawn at random (SpecJobs)

(***************************************************************************)
(* Program constants.                                                      *)
(***************************************************************************)
DEFAULT_MAX_ATTEMPTS == 8     \* jobs.py: enqueue_job(max_attempts=8)
BASE_DELAY == 30              \* jobs.py: delay = 30 * (2 ** (attempts - 1))
FETCH_LIMIT == 5              \* worker.py: fetch_and_lock_jobs(limit=5)
SWEEP_LIMIT == 50             \* worker.py: SWEEP_LIMIT
REMINDER_MINUTES_BEFORE == 120 \* routes.py
DEFAULT_SLOT_MINUTES == 30    \* hours.py: DEFAULT_HOURS["slot_minutes"]
TZ_OFFSET_MINUTES == 180      \* hours.py: DEFAULT_HOURS["timezone"], Africa/Nairobi = UTC+3

(***************************************************************************)
(* SQL NULL / Python None, and a present value.                            *)
(***************************************************************************)
Null == <<>>
Some(x) == <<x>>

Max2(a, b) == IF a >= b THEN a ELSE b

RECURSIVE Pow2(_)
Pow2(n) == IF n <= 0 THEN 1 ELSE 2 * Pow2(n - 1)

(***************************************************************************)
(* Message texts.  TLC strings are atomic, so a text that the code parses  *)
(* is kept in parsed-apart form: a date text "y-m-d", a clock text "h:m"   *)
(* with an optional AM/PM suffix, or any other text.                       *)
(***************************************************************************)
Txt(s) == [kind |-> "txt", s |-> s, x |-> 0, y |-> 0, z |-> 0]
DateTxt(y, m, d) == [kind |-> "date", s |-> "", x |-> y, y |-> m, z |-> d]
TimeTxt(h, m, ap) == [kind |-> "time", s |-> ap, x |-> h, y |-> m, z |-> 0]
NoText == Txt("")

\* A normalised "HH:MM" string, as normalize_time_to_24h formats it.
HHMM(h, m) == [h |-> h, m |-> m]
NoTime == [h |-> -1, m |-> -1]

(***************************************************************************)
(* intents.py                                                              *)
(***************************************************************************)
BOOKING_KEYWORDS == {"book", "booking", "appointment", "schedule",
                     "make appointment", "see dentist", "visit clinic"}

\* any(k in t for k in BOOKING_KEYWORDS): of the texts of the model, the
\* ones that contain a keyword as a substring.
ContainsBookingKeyword(s) ==
    s \in BOOKING_KEYWORDS \cup {"my appointment", "reschedule", "i want to book"}

\* an is_booking_intent that asks for the keyword alone
is_booking_intent_exact(text) == text.kind = "txt" /\ text.s \in BOOKING_KEYWORDS

is_booking_intent(text) ==
    /\ text.kind = "txt"
    /\ text.s # ""
    /\ ContainsBookingKeyword(text.s)

IsLeap(y) == (y % 4 = 0 /\ y % 100 # 0) \/ y % 400 = 0

DaysInMonth(y, m) ==
    IF m = 2 THEN (IF IsLeap(y) THEN 29 ELSE 28)
    ELSE IF m \in {4, 6, 9, 11} THEN 30 ELSE 31

\* datetime.strptime(s.strip(), "%Y-%m-%d") succeeds
looks_like_date(text) ==
    /\ text.kind = "date"
    /\ text.x >= 1 /\ text.x <= 9999
    /\ text.y >= 1 /\ text.y <= 12
    /\ text.z >= 1 /\ text.z <= DaysInMonth(text.x, text.y)

(***************************************************************************)
(* hours.py                                                                *)
(***************************************************************************)
DayKeys == <<"mon", "tue", "wed", "thu", "fri", "sat", "sun">>

DEFAULT_WEEKLY ==
    [k \in {"mon", "tue", "wed", "thu", "fri"} |-> <<[start |-> HHMM(9, 0), end |-> HHMM(17, 0)]>>]
    @@ ("sat" :> <<[start |-> HHMM(9, 0), end |-> HHMM(13, 0)]>>)
    @@ ("sun" :> <<>>)

\* Days from 0001-01-01 (day 1) to the date, as date.toordinal() counts them.
DaysBeforeYear(y) == (y - 1) * 365 + (y - 1) \div 4 - (y - 1) \div 100 + (y - 1) \div 400

RECURSIVE DaysBeforeMonth(_, _)
DaysBeforeMonth(y, m) ==
    IF m <= 1 THEN 0 ELSE DaysBeforeMonth(y, m - 1) + DaysInMonth(y, m - 1)

ToOrdinal(y, m, d) == DaysBeforeYear(y) + DaysBeforeMonth(y, m) + d

\* datetime.weekday(): Monday = 0
Weekday(y, m, d) == (ToOrdinal(y, m, d) + 6) % 7

weekday_key_from_date(date) == DayKeys[Weekday(date.x, date.y, date.z) + 1]

parse_hhmm_to_minutes(t) ==
    IF t.h < 0 \/ t.h > 23 \/ t.m < 0 \/ t.m > 59 THEN -1 ELSE t.h * 60 + t.m

\* strptime "%H:%M", then "%I:%M %p"; None is NoTime
normalize_time_to_24h(text) ==
    IF text.kind # "time" THEN NoTime
    ELSE IF text.s = ""
         THEN IF text.x >= 0 /\ text.x <= 23 /\ text.y >= 0 /\ text.y <= 59
              THEN HHMM(text.x, text.y) ELSE NoTime
    ELSE IF text.s \in {"AM", "PM"} /\ text.x >= 1 /\ text.x <= 12
            /\ text.y >= 0 /\ text.y <= 59
         THEN HHMM((text.x % 12) + (IF text.s = "PM" THEN 12 ELSE 0), text.y)
    ELSE NoTime

\* an is_open_on_date that reads no hours: every day is open
is_open_on_date_always(date, weekly) == TRUE

\* weekday_key_from_date raises on a text that is no date: is_open_on_date
\* returns True from its except branch
is_open_on_date(date, weekly) ==
    IF ~looks_like_date(date) THEN TRUE
    ELSE Len(weekly[weekday_key_from_date(date)]) > 0

is_time_within_hours(date, t, weekly) ==
    IF ~looks_like_date(date) THEN TRUE
    ELSE LET intervals == weekly[weekday_key_from_date(date)]
             tmin == parse_hhmm_to_minutes(t)
         IN  /\ Len(intervals) > 0
             /\ tmin >= 0
             /\ \E i \in 1..Len(intervals) :
                   /\ parse_hhmm_to_minutes(intervals[i].start) <= tmin
                   /\ tmin < parse_hhmm_to_minutes(intervals[i].end)

\* an is_slot_aligned that asks for a time and not for a slot
is_slot_aligned_any_minute(t, slot_minutes) == parse_hhmm_to_minutes(t) >= 0

is_slot_aligned(t, slot_minutes) ==
    LET tmin == parse_hhmm_to_minutes(t)
    IN  tmin >= 0 /\ tmin % slot_minutes = 0


(***************************************************************************)
(* The world of the model.                                                 *)
(***************************************************************************)
Clinics == {"c1"}
Users == {"u1", "u2"}
NoClinic == ""
\* MessageSid values of the provider; "" is a request without MessageSid
Sids == {"", "SM1"}
\* the codes generate_ref_code can draw ("AP-" and 6 characters)
RefCodes == <<"AP-AAAAA1", "AP-AAAAA2", "AP-AAAAA3">>
DEFAULT_SHEET_ID == "default-sheet"

WorkerIds == 1..NumWorkers
ReqIds == 1..MaxInflight

\* os.getenv("WORKER_NAME"): every worker process is given its own name
WORKER_NAME(w) == w

VARIABLES
    now,            \* the clock (utcnow / now()), in seconds
    settings,       \* clinic_settings.settings of each clinic
    messages,       \* messages table: rows per non-empty twilio_sid
    conversations,  \* conversations table: (clinic_id, user_number) -> state, draft
    appointments,   \* appointments table: row i has id i
    jobs,           \* jobs table: row i has id i
    sheet,          \* rows appended to the spreadsheets, in order
    requests,       \* webhook requests being handled
    completed,      \* MessageSids of which a delivery has been answered
    workers         \* the worker processes: position in main and its locals

dbVars == <<messages, conversations, appointments, jobs, sheet>>
vars == <<now, settings, messages, conversations, appointments, jobs, sheet,
          requests, completed, workers>>

EmptyDraft == [name |-> NoText, date |-> NoText, time |-> NoTime]
NoRequest == [pc |-> "none", sid |-> "", clinic_id |-> NoClinic, user |-> "",
              incoming |-> NoText, appt_id |-> 0, ref_code |-> "", replay |-> FALSE]
IdleWorker == [pc |-> "loop", sweep_rows |-> <<>>, batch |-> <<>>, ok |-> TRUE]

JobIds == 1..Len(jobs)
ApptIds == 1..Len(appointments)

(***************************************************************************)
(* db.py: the idempotency gate.  Rows with an empty twilio_sid are never    *)
(* looked up (already_processed_twilio_sid returns False before its query) *)
(* and are not kept.                                                       *)
(***************************************************************************)
\* a check that finds no row, whatever the table holds
already_processed_never(twilio_sid) == FALSE

already_processed_twilio_sid(twilio_sid) ==
    IF twilio_sid = "" THEN FALSE ELSE messages[twilio_sid] > 0

\* a save_message that stores the row without its twilio_sid
save_message_without_sid(msgs, twilio_sid) == msgs

\* INSERT INTO messages ... ON CONFLICT DO NOTHING: the table has no unique
\* constraint on twilio_sid, so no insert ever conflicts
save_message(msgs, twilio_sid) ==
    IF twilio_sid = "" THEN msgs
    ELSE [msgs EXCEPT ![twilio_sid] = @ + 1]

(***************************************************************************)
(* db.py: conversations                                                    *)
(***************************************************************************)
get_state_and_draft(clinic_id, user) == conversations[<<clinic_id, user>>]

set_state_and_draft(convs, clinic_id, user, state, draft) ==
    [convs EXCEPT ![<<clinic_id, user>>] = [state |-> state, draft |-> draft]]

\* a clear_state_machine that resets the state and keeps the draft
clear_state_machine_keep_draft(convs, clinic_id, user) ==
    [convs EXCEPT ![<<clinic_id, user>>].state = "idle"]

clear_state_machine(convs, clinic_id, user) ==
    set_state_and_draft(convs, clinic_id, user, "idle", EmptyDraft)

(***************************************************************************)
(* db.py: appointments.  created_at grows with the id.                     *)
(***************************************************************************)
BookedOf(appts, clinic_id, user) ==
    {i \in 1..Len(appts) : /\ appts[i].clinic_id = clinic_id
                           /\ appts[i].user_number = user
                           /\ appts[i].status = "Booked"}

SetMax(S) == CHOOSE m \in S : \A k \in S : k <= m
SetMin(S) == CHOOSE m \in S : \A k \in S : m <= k

\* id of the row get_latest_booked_appointment returns, 0 for None
get_latest_booked_appointment(appts, clinic_id, user) ==
    IF BookedOf(appts, clinic_id, user) = {} THEN 0
    ELSE SetMax(BookedOf(appts, clinic_id, user))

\* the id cancel_latest_appointment cancels and returns, 0 for None
cancel_latest_id(appts, clinic_id, user) ==
    get_latest_booked_appointment(appts, clinic_id, user)

cancel_latest_appointment(appts, clinic_id, user) ==
    LET id == cancel_latest_id(appts, clinic_id, user)
    IN  IF id = 0 THEN appts ELSE [appts EXCEPT ![id].status = "Cancelled"]

RefRows(appts, clinic_id, ref_code) ==
    {i \in 1..Len(appts) : /\ appts[i].clinic_id = clinic_id
                           /\ appts[i].ref_code = ref_code
                           /\ appts[i].status = "Booked"}

\* a cancel_by_ref that does not compare the row's user_number
cancel_by_ref_result_any_user(appts, clinic_id, user, ref_code) ==
    IF RefRows(appts, clinic_id, ref_code) = {} THEN "none" ELSE "cancelled"

\* what cancel_by_ref returns: "none", "not_owner" or "cancelled"
cancel_by_ref_result(appts, clinic_id, user, ref_code) ==
    IF RefRows(appts, clinic_id, ref_code) = {} THEN "none"
    ELSE IF appts[SetMin(RefRows(appts, clinic_id, ref_code))].user_number # user
         THEN "not_owner"
    ELSE "cancelled"

cancel_by_ref(appts, clinic_id, user, ref_code) ==
    IF cancel_by_ref_result(appts, clinic_id, user, ref_code) = "cancelled"
    THEN [appts EXCEPT ![SetMin(RefRows(appts, clinic_id, ref_code))].status = "Cancelled"]
    ELSE appts

update_sheet_sync_status(appts, appointment_id, status, error) ==
    IF appointment_id \notin 1..Len(appts) THEN appts
    ELSE [appts EXCEPT ![appointment_id].sheet_sync_status = status,
                       ![appointment_id].sheet_sync_error =
                            IF status = "synced" THEN Null ELSE Some(error)]

\* ids of get_unsynced_appointments / the sweeper's SELECT, newest first
RECURSIVE DescSeq(_, _)
DescSeq(S, limit) ==
    IF S = {} \/ limit <= 0 THEN <<>>
    ELSE <<SetMax(S)>> \o DescSeq(S \ {SetMax(S)}, limit - 1)

Unsynced(appts) ==
    {i \in 1..Len(appts) : /\ appts[i].status = "Booked"
                           /\ appts[i].sheet_sync_status \in {"failed", "pending"}}

get_unsynced_appointments(appts, clinic_id, limit) ==
    DescSeq({i \in Unsynced(appts) : appts[i].clinic_id = clinic_id}, limit)

(***************************************************************************)
(* jobs.py                                                                 *)
(***************************************************************************)
Payload(appointment_id, to) == [appointment_id |-> appointment_id, to |-> to]

enqueue_job(js, job_type, payload, run_at, max_attempts, t) ==
    Append(js, [id |-> Len(js) + 1, job_type |-> job_type, payload |-> payload,
                status |-> "queued", run_at |-> run_at, attempts |-> 0,
                max_attempts |-> max_attempts, last_error |-> Null,
                locked_at |-> Null, locked_by |-> Null, updated_at |-> t])

\* the CTE without its status filter: a job another worker holds is picked
Claimable_any_status(js, t) ==
    {i \in 1..Len(js) : js[i].status \in {"queued", "running"} /\ js[i].run_at <= t}

\* WHERE status='queued' AND run_at <= now()
Claimable(js, t) ==
    {i \in 1..Len(js) : js[i].status = "queued" /\ js[i].run_at <= t}

\* ORDER BY run_at ASC, id ASC
JobBefore(js, i, k) ==
    \/ js[i].run_at < js[k].run_at
    \/ (js[i].run_at = js[k].run_at /\ i <= k)

RECURSIVE FirstJobs(_, _, _)
FirstJobs(js, S, limit) ==
    IF S = {} \/ limit <= 0 THEN <<>>
    ELSE LET f == CHOOSE i \in S : \A k \in S : JobBefore(js, i, k)
         IN  <<f>> \o FirstJobs(js, S \ {f}, limit - 1)

\* a CTE without its LIMIT
picked_unlimited(js, limit, t) == FirstJobs(js, Claimable(js, t), Len(js))

\* the ids of the CTE "picked".  The statement runs as one transaction, so
\* no row it meets is locked by another claimant (SKIP LOCKED skips none).
picked(js, limit, t) == FirstJobs(js, Claimable(js, t), limit)

SeqRange(q) == {q[i] : i \in 1..Len(q)}

\* the jobs table after the UPDATE of fetch_and_lock_jobs
fetch_and_lock_jobs(js, limit, worker, t) ==
    [i \in 1..Len(js) |->
        IF i \in SeqRange(picked(js, limit, t))
        THEN [js[i] EXCEPT !.status = "running", !.locked_at = Some(t),
                           !.locked_by = Some(WORKER_NAME(worker)), !.updated_at = t]
        ELSE js[i]]

\* RETURNING j.*: the rows as updated
fetched_rows(js, limit, worker, t) ==
    [n \in 1..Len(picked(js, limit, t)) |->
        fetch_and_lock_jobs(js, limit, worker, t)[picked(js, limit, t)[n]]]

\* a mark_done that counts the successful run as an attempt
mark_done_counting(js, job_id, t) ==
    [js EXCEPT ![job_id].status = "done", ![job_id].attempts = @ + 1,
               ![job_id].locked_at = Null, ![job_id].locked_by = Null,
               ![job_id].updated_at = t]

mark_done(js, job_id, t) ==
    [js EXCEPT ![job_id].status = "done", ![job_id].locked_at = Null,
               ![job_id].locked_by = Null, ![job_id].updated_at = t]

\* a delay that grows by 30 seconds per attempt instead of doubling
backoff_delay_linear(attempts) == BASE_DELAY * attempts

\* delay = 30 * (2 ** (attempts - 1)), attempts already incremented
backoff_delay(attempts) == BASE_DELAY * Pow2(attempts - 1)

\* a test that gives up one attempt early
attempts_exhausted_early(attempts, max_attempts) == attempts + 1 >= max_attempts

\* attempts >= max_attempts, attempts already incremented
attempts_exhausted(attempts, max_attempts) == attempts >= max_attempts

reschedule_or_fail(js, job_id, attempts, max_attempts, error, t) ==
    IF attempts_exhausted(attempts + 1, max_attempts)
    THEN [js EXCEPT ![job_id].status = "failed", ![job_id].attempts = attempts + 1,
                    ![job_id].last_error = Some(error), ![job_id].updated_at = t]
    ELSE [js EXCEPT ![job_id].status = "queued", ![job_id].attempts = attempts + 1,
                    ![job_id].last_error = Some(error),
                    ![job_id].run_at = t + backoff_delay(attempts + 1),
                    ![job_id].locked_at = Null, ![job_id].locked_by = Null,
                    ![job_id].updated_at = t]

\* an UPDATE of cancel_jobs_for_appointment without its job_type filter
cancel_jobs_for_appointment_any_type(js, job_type, appointment_id, t) ==
    [i \in 1..Len(js) |->
        IF js[i].status \in {"queued", "running"}
           /\ js[i].payload.appointment_id = Some(appointment_id)
        THEN [js[i] EXCEPT !.status = "cancelled", !.locked_at = Null,
                           !.locked_by = Null, !.updated_at = t]
        ELSE js[i]]

PendingJobs(js, job_type, appointment_id) ==
    {i \in 1..Len(js) : /\ js[i].job_type = job_type
                        /\ js[i].status \in {"queued", "running"}
                        /\ js[i].payload.appointment_id = Some(appointment_id)}

\* a has_pending_sync_job that counts a failed job as pending
has_pending_sync_job_or_failed(js, appointment_id) ==
    \E i \in 1..Len(js) : /\ js[i].job_type = "sync_sheet"
                          /\ js[i].status \in {"queued", "running", "failed"}
                          /\ js[i].payload.appointment_id = Some(appointment_id)

has_pending_sync_job(js, appointment_id) ==
    PendingJobs(js, "sync_sheet", appointment_id) # {}

has_pending_job_for_appointment(js, job_type, appointment_id) ==
    PendingJobs(js, job_type, appointment_id) # {}

cancel_jobs_for_appointment(js, job_type, appointment_id, t) ==
    [i \in 1..Len(js) |->
        IF i \in PendingJobs(js, job_type, appointment_id)
        THEN [js[i] EXCEPT !.status = "cancelled", !.locked_at = Null,
                           !.locked_by = Null, !.updated_at = t]
        ELSE js[i]]

(***************************************************************************)
(* clinic.py, booking.py, sheets.py                                        *)
(***************************************************************************)
\* GOOGLE_SHEETS_ID is unset: a clinic without sheet settings gets the default
get_clinic_sheet_config(clinic_settings) ==
    IF clinic_settings.sheet_id # "" THEN clinic_settings.sheet_id ELSE DEFAULT_SHEET_ID

SheetRow(sheet_id, date, time, name, phone) ==
    [sheet_id |-> sheet_id, date |-> date, time |-> time, name |-> name, phone |-> phone]

append_to_sheet(sh, date, time, name, phone, sheet_id) ==
    Append(sh, SheetRow(sheet_id, date, time, name, phone))

SlotRows(appts, clinic_id, date, time) ==
    {i \in 1..Len(appts) : /\ appts[i].clinic_id = clinic_id
                           /\ appts[i].date = date
                           /\ appts[i].time = time
                           /\ appts[i].status = "Booked"}

\* sheet_read: the read of the sheet succeeded (sheets_api is set and
\* raised nothing); otherwise only the appointments table decides
check_double_booking(appts, sh, clinic_id, date, time, sheet_id, sheet_read) ==
    \/ SlotRows(appts, clinic_id, date, time) # {}
    \/ /\ sheet_read
       /\ \E n \in 1..Len(sh) : /\ sh[n].sheet_id = sheet_id
                                /\ sh[n].date = date
                                /\ sh[n].time = time

\* the ref codes a row of the clinic holds: uq_appointments_ref_code is on
\* (clinic_id, ref_code) over all rows, Booked or Cancelled
UsedRefCodes(appts, clinic_id) ==
    {appts[i].ref_code : i \in {k \in 1..Len(appts) : appts[k].clinic_id = clinic_id}}

\* generate_ref_code draws at random; the codes are interchangeable, so the
\* draw that gets through is taken to be the first code no row holds
\* ("FAIL": none is left)
FreshRefCode(appts, clinic_id) ==
    IF \A n \in 1..Len(RefCodes) : RefCodes[n] \in UsedRefCodes(appts, clinic_id)
    THEN "FAIL"
    ELSE RefCodes[SetMin({n \in 1..Len(RefCodes) :
                            RefCodes[n] \notin UsedRefCodes(appts, clinic_id)})]

\* the INSERT of save_appointment_local violates a unique index: the only
\* one on appointments is uq_appointments_ref_code
insert_conflicts(appts, clinic_id, date, time, ref_code) ==
    ref_code \in UsedRefCodes(appts, clinic_id)

save_appointment_local(appts, clinic_id, user, name, date, time, ref_code) ==
    Append(appts, [clinic_id |-> clinic_id, user_number |-> user, name |-> name,
                   date |-> date, time |-> time, status |-> "Booked",
                   sheet_sync_status |-> "pending", sheet_sync_error |-> Null,
                   ref_code |-> ref_code])

(***************************************************************************)
(* admin.py, routes.py: helpers                                            *)
(***************************************************************************)
\* an is_admin that lets every number pass
is_admin_anyone(user_number, clinic_settings) == TRUE

is_admin(user_number, clinic_settings) == user_number \in SeqRange(clinic_settings.admins)

RECURSIVE _enqueue_admin_notify(_, _, _, _)
_enqueue_admin_notify(js, admins, appointment_id, t) ==
    IF admins = <<>> THEN js
    ELSE _enqueue_admin_notify(
            enqueue_job(js, "notify_admin", Payload(appointment_id, Head(admins)),
                        t, DEFAULT_MAX_ATTEMPTS, t),
            Tail(admins), appointment_id, t)

\* The clock counts seconds from 2026-01-15 00:00 UTC.
EpochOrdinal == ToOrdinal(2026, 1, 15)

\* the appointment's local wall-clock time as a UTC second
ApptUtc(date, time) ==
    (ToOrdinal(date.x, date.y, date.z) - EpochOrdinal) * 86400
        + (parse_hhmm_to_minutes(time) - TZ_OFFSET_MINUTES) * 60

reminder_run_at(date, time) == ApptUtc(date, time) - REMINDER_MINUTES_BEFORE * 60

\* strptime raising on the date or time is caught and only printed
_schedule_patient_reminder(js, user_number, appointment_id, date, time, t) ==
    IF ~looks_like_date(date) \/ parse_hhmm_to_minutes(time) < 0 THEN js
    ELSE IF reminder_run_at(date, time) <= t THEN js
    ELSE enqueue_job(js, "patient_reminder", Payload(Some(appointment_id), user_number),
                     reminder_run_at(date, time), DEFAULT_MAX_ATTEMPTS, t)

CancelRefTxt(ref) == [kind |-> "cancelref", s |-> ref, x |-> 0, y |-> 0, z |-> 0]
IsCmd(text, s) == text.kind = "txt" /\ text.s = s

\* the rows "retry sheets" appends: each append succeeds for the ids in okset
RECURSIVE retry_sheets_appts(_, _, _)
retry_sheets_appts(appts, rows, okset) ==
    IF rows = <<>> THEN appts
    ELSE retry_sheets_appts(
            IF Head(rows) \in okset
            THEN update_sheet_sync_status(appts, Head(rows), "synced", "")
            ELSE update_sheet_sync_status(appts, Head(rows), "failed",
                                          "Retry sheets failed (see logs)"),
            Tail(rows), okset)

RECURSIVE retry_sheets_sheet(_, _, _, _, _)
retry_sheets_sheet(sh, appts, rows, okset, sheet_id) ==
    IF rows = <<>> THEN sh
    ELSE retry_sheets_sheet(
            IF Head(rows) \in okset
            THEN append_to_sheet(sh, appts[Head(rows)].date, appts[Head(rows)].time,
                                 appts[Head(rows)].name, appts[Head(rows)].user_number,
                                 sheet_id)
            ELSE sh,
            appts, Tail(rows), okset, sheet_id)

\* what one pass of whatsapp_webhook leaves behind
Effect(convs, appts, js, sh, pc, appt_id, ref_code) ==
    [convs |-> convs, appts |-> appts, js |-> js, sh |-> sh, pc |-> pc,
     appt_id |-> appt_id, ref_code |-> ref_code]

NoEffect == Effect(conversations, appointments, jobs, sheet, "none", 0, "")

(***************************************************************************)
(* routes.py: whatsapp_webhook after the inbound message is saved.         *)
(* req is the request; ref, sheet_read and okset are what the environment  *)
(* decides: the ref code drawn ("FAIL": every try collided), whether the   *)
(* sheet could be read, and which sheet appends succeed.                   *)
(***************************************************************************)
Commands == {"today", "retry sheets", "jobs", "failed jobs", "jobs failed",
             "my appointment", "cancel", "reschedule", "reset"}

IsCommand(text) ==
    \/ text.kind = "cancelref"
    \/ (text.kind = "txt" /\ text.s \in Commands)

cmd_retry_sheets(req, okset) ==
    LET cs == settings[req.clinic_id]
        rows == get_unsynced_appointments(appointments, req.clinic_id, 20)
    IN  IF ~is_admin(req.user, cs) THEN NoEffect
        ELSE Effect(conversations,
                    retry_sheets_appts(appointments, rows, okset),
                    jobs,
                    retry_sheets_sheet(sheet, appointments, rows, okset,
                                       get_clinic_sheet_config(cs)),
                    "none", 0, "")

\* cancel AP-XXXXXX: neither the conversation nor any reminder job is touched
cmd_cancel_by_ref(req) ==
    LET cs == settings[req.clinic_id]
        result == cancel_by_ref_result(appointments, req.clinic_id, req.user, req.incoming.s)
    IN  IF result # "cancelled" THEN NoEffect
        ELSE Effect(conversations,
                    cancel_by_ref(appointments, req.clinic_id, req.user, req.incoming.s),
                    _enqueue_admin_notify(jobs, cs.admins, Null, now),
                    sheet, "none", 0, "")

cmd_cancel(req) ==
    LET cs == settings[req.clinic_id]
        cancelled == cancel_latest_id(appointments, req.clinic_id, req.user)
        convs == clear_state_machine(conversations, req.clinic_id, req.user)
    IN  IF cancelled = 0 THEN Effect(convs, appointments, jobs, sheet, "none", 0, "")
        ELSE Effect(convs,
                    cancel_latest_appointment(appointments, req.clinic_id, req.user),
                    _enqueue_admin_notify(
                        cancel_jobs_for_appointment(jobs, "patient_reminder", cancelled, now),
                        cs.admins, Some(cancelled), now),
                    sheet, "none", 0, "")

\* a reschedule that cancels and goes back to idle
cmd_reschedule_to_idle(req) == cmd_cancel(req)

cmd_reschedule(req) ==
    LET cs == settings[req.clinic_id]
        cancelled == cancel_latest_id(appointments, req.clinic_id, req.user)
        convs == set_state_and_draft(conversations, req.clinic_id, req.user,
                                     "collect_name", EmptyDraft)
    IN  IF cancelled = 0
        THEN Effect(convs, appointments,
                    _enqueue_admin_notify(jobs, cs.admins, Null, now),
                    sheet, "none", 0, "")
        ELSE Effect(convs,
                    cancel_latest_appointment(appointments, req.clinic_id, req.user),
                    _enqueue_admin_notify(
                        cancel_jobs_for_appointment(jobs, "patient_reminder", cancelled, now),
                        cs.admins, Some(cancelled), now),
                    sheet, "none", 0, "")

cmd_reset(req) ==
    Effect(clear_state_machine(conversations, req.clinic_id, req.user),
           appointments, jobs, sheet, "none", 0, "")

\* a dispatch of the commands in which "my appointment" also clears the
\* conversation
command_effect_clearing(req, okset) ==
    IF IsCmd(req.incoming, "my appointment") THEN cmd_reset(req) ELSE NoEffect

command_effect(req, okset) ==
    IF req.incoming.kind = "cancelref" THEN cmd_cancel_by_ref(req)
    ELSE IF IsCmd(req.incoming, "retry sheets") THEN cmd_retry_sheets(req, okset)
    ELSE IF IsCmd(req.incoming, "cancel") THEN cmd_cancel(req)
    ELSE IF IsCmd(req.incoming, "reschedule") THEN cmd_reschedule(req)
    ELSE IF IsCmd(req.incoming, "reset") THEN cmd_reset(req)
    ELSE NoEffect  \* today, jobs, failed jobs, my appointment only read

sm_collect_date(req, draft) ==
    LET weekly == settings[req.clinic_id].weekly
    IN  IF looks_like_date(req.incoming) /\ is_open_on_date(req.incoming, weekly)
        THEN Effect(set_state_and_draft(conversations, req.clinic_id, req.user, "collect_time",
                                        [draft EXCEPT !.date = req.incoming]),
                    appointments, jobs, sheet, "none", 0, "")
        ELSE NoEffect

sm_collect_time(req, draft, sheet_read) ==
    LET cs == settings[req.clinic_id]
        time_24 == normalize_time_to_24h(req.incoming)
    IN  IF time_24 = NoTime THEN NoEffect
        ELSE IF ~is_time_within_hours(draft.date, time_24, cs.weekly) THEN NoEffect
        ELSE IF ~is_slot_aligned(time_24, cs.slot_minutes) THEN NoEffect
        ELSE IF check_double_booking(appointments, sheet, req.clinic_id, draft.date, time_24,
                                     get_clinic_sheet_config(cs), sheet_read) THEN NoEffect
        ELSE Effect(set_state_and_draft(conversations, req.clinic_id, req.user, "confirm",
                                        [draft EXCEPT !.time = time_24]),
                    appointments, jobs, sheet, "none", 0, "")

\* confirm, "yes": save_appointment_local.  A draw that collides is tried
\* again, so the draw that counts is a free code, or "FAIL" after
\* five collisions (RuntimeError: the request ends there).
sm_confirm_yes(req, draft, ref) ==
    IF ref = "FAIL"
    THEN IF UsedRefCodes(appointments, req.clinic_id) # {}
         THEN NoEffect
         ELSE [NoEffect EXCEPT !.pc = "invalid"]
    ELSE IF insert_conflicts(appointments, req.clinic_id, draft.date, draft.time, ref)
         THEN [NoEffect EXCEPT !.pc = "invalid"]
    ELSE Effect(conversations,
                save_appointment_local(appointments, req.clinic_id, req.user,
                                       draft.name, draft.date, draft.time, ref),
                jobs, sheet, "confirm_sync", Len(appointments) + 1, ref)

state_machine_effect(req, ref, sheet_read) ==
    LET sd == get_state_and_draft(req.clinic_id, req.user)
        state == sd.state
        draft == sd.draft
    IN  IF state = "idle" /\ is_booking_intent(req.incoming)
        THEN Effect(set_state_and_draft(conversations, req.clinic_id, req.user,
                                        "collect_name", EmptyDraft),
                    appointments, jobs, sheet, "none", 0, "")
        ELSE IF state = "collect_name"
        THEN Effect(set_state_and_draft(conversations, req.clinic_id, req.user, "collect_date",
                                        [draft EXCEPT !.name = req.incoming]),
                    appointments, jobs, sheet, "none", 0, "")
        ELSE IF state = "collect_date" THEN sm_collect_date(req, draft)
        ELSE IF state = "collect_time" THEN sm_collect_time(req, draft, sheet_read)
        ELSE IF state = "confirm"
        THEN IF req.incoming.kind = "txt" /\ req.incoming.s \in {"yes", "y"}
             THEN sm_confirm_yes(req, draft, ref)
             ELSE IF req.incoming.kind = "txt" /\ req.incoming.s \in {"no", "n"}
             THEN Effect(clear_state_machine(conversations, req.clinic_id, req.user),
                         appointments, jobs, sheet, "none", 0, "")
             ELSE NoEffect
        ELSE NoEffect  \* ai_reply

whatsapp_webhook(req, ref, sheet_read, okset) ==
    IF IsCommand(req.incoming) THEN command_effect(req, okset)
    ELSE state_machine_effect(req, ref, sheet_read)

\* The reply of the pass: the text the branch puts into msg.body, without
\* the values it formats in.  "(error)": an exception leaves the view and
\* the request is answered with HTTP 500.
AdminCommands == {"today", "retry sheets", "jobs", "failed jobs", "jobs failed"}

command_reply(req) ==
    LET result == cancel_by_ref_result(appointments, req.clinic_id, req.user, req.incoming.s)
        latest == get_latest_booked_appointment(appointments, req.clinic_id, req.user)
    IN  IF req.incoming.kind = "cancelref"
        THEN (CASE result = "not_owner" -> "That reference code doesn't belong to your number."
                [] result = "none" ->
                      "I couldn't find an active booked appointment with that reference."
                [] OTHER -> "Cancelled appointment on {date} at {time}.")
        ELSE IF req.incoming.s \in AdminCommands
        THEN IF ~is_admin(req.user, settings[req.clinic_id]) THEN "Not authorized."
             ELSE IF IsCmd(req.incoming, "today") THEN "Today ({today}) appointments"
             ELSE IF IsCmd(req.incoming, "retry sheets")
             THEN IF get_unsynced_appointments(appointments, req.clinic_id, 20) = <<>>
                  THEN "No pending/failed sheet syncs found."
                  ELSE "Retry complete"
             ELSE IF IsCmd(req.incoming, "jobs") THEN "Jobs status"
             ELSE "Failed sync_sheet jobs"
        ELSE IF IsCmd(req.incoming, "my appointment")
        THEN IF latest = 0 THEN "You have no booked appointments right now."
             ELSE "Your next appointment is on {date} at {time} under the name {name}."
        ELSE IF IsCmd(req.incoming, "cancel")
        THEN IF latest = 0 THEN "I couldn't find an active booked appointment to cancel."
             ELSE "Cancelled your appointment on {date} at {time}."
        ELSE IF IsCmd(req.incoming, "reschedule")
        THEN IF latest = 0
             THEN "No active appointment found, but I can help you book a new one."
             ELSE "Cancelled {date} {time}. Let's reschedule. What's your full name?"
        ELSE "Session reset. You can start again."

state_machine_reply(req, ref, sheet_read) ==
    LET cs == settings[req.clinic_id]
        sd == get_state_and_draft(req.clinic_id, req.user)
        time_24 == normalize_time_to_24h(req.incoming)
    IN  IF sd.state = "idle" /\ is_booking_intent(req.incoming)
        THEN "Sure. What's your full name?"
        ELSE IF sd.state = "collect_name" THEN "What date would you like? (YYYY-MM-DD)"
        ELSE IF sd.state = "collect_date"
        THEN IF ~looks_like_date(req.incoming)
             THEN "Please type the date like 2026-01-15 (YYYY-MM-DD)."
             ELSE IF ~is_open_on_date(req.incoming, cs.weekly)
             THEN "Sorry, we're closed on that day. Please choose another date."
             ELSE "What time would you prefer? (HH:MM)"
        ELSE IF sd.state = "collect_time"
        THEN IF time_24 = NoTime THEN "Please type the time like 09:30 (HH:MM) or 2:30 PM."
             ELSE IF ~is_time_within_hours(sd.draft.date, time_24, cs.weekly)
             THEN "That time is outside working hours for {date}."
             ELSE IF ~is_slot_aligned(time_24, cs.slot_minutes)
             THEN "Please choose a time that matches our {slot_minutes}-minute slots."
             ELSE IF check_double_booking(appointments, sheet, req.clinic_id, sd.draft.date,
                                          time_24, get_clinic_sheet_config(cs), sheet_read)
             THEN "That slot is already booked. Choose another time."
             ELSE "Confirm appointment on {date} at {time_24}? (yes/no)"
        ELSE IF sd.state = "confirm"
        THEN IF req.incoming.kind = "txt" /\ req.incoming.s \in {"yes", "y"}
             THEN IF ref = "FAIL" THEN "(error)"
                  ELSE "Appointment confirmed for {date} at {time_24}"
             ELSE IF req.incoming.kind = "txt" /\ req.incoming.s \in {"no", "n"}
             THEN "No problem - booking cancelled. Type 'book' to start again."
             ELSE "Please reply with 'yes' to confirm or 'no' to cancel."
        ELSE "{ai_reply}"

webhook_reply(req, ref, sheet_read) ==
    IF IsCommand(req.incoming) THEN command_reply(req)
    ELSE state_machine_reply(req, ref, sheet_read)

(***************************************************************************)
(* routes.py: the steps of one webhook request.                            *)
(***************************************************************************)
Finish(r) ==
    /\ requests' = [requests EXCEPT ![r] = NoRequest]
    /\ completed' = IF requests[r].sid = "" THEN completed
                    ELSE completed \cup {requests[r].sid}

\* Lines 131-154: a request arrives, its clinic is resolved and the
\* idempotency check is made.  A request to a number without clinic, or one
\* whose MessageSid is already in messages, is answered at once with
\* "Received.": the handler is free again (pc "none") and only keeps the
\* sid it turned away, and whether that sid's handling had completed
\* (replay).  Another request goes on to save_message.  Nothing is written
\* before the check, so arrival and check are one step.
Deliver(r, sid, clinic_id, user, incoming) ==
    /\ requests[r].pc = "none"
    /\ \A q \in ReqIds : q < r => requests[q].pc # "none"
    /\ clinic_id # NoClinic
    /\ IF already_processed_twilio_sid(sid)
       THEN requests' = [requests EXCEPT ![r] =
                [NoRequest EXCEPT !.sid = sid, !.replay = sid \in completed]]
       ELSE requests' = [requests EXCEPT ![r] =
                [pc |-> "dispatch", sid |-> sid, clinic_id |-> clinic_id, user |-> user,
                 incoming |-> incoming, appt_id |-> 0, ref_code |-> "",
                 replay |-> sid \in completed]]
    /\ UNCHANGED <<now, settings, dbVars, completed, workers>>

\* what the environment decides in a pass: it is drawn only where the pass
\* reads it
RefDraws(req) ==
    IF conversations[<<req.clinic_id, req.user>>].state = "confirm" /\ ~IsCommand(req.incoming)
    THEN {FreshRefCode(appointments, req.clinic_id), "FAIL"} ELSE {"FAIL"}

SheetReads(req) ==
    IF conversations[<<req.clinic_id, req.user>>].state = "collect_time" /\ sheet # <<>>
    THEN BOOLEAN ELSE {FALSE}

OkSets(req) ==
    IF IsCmd(req.incoming, "retry sheets")
    THEN SUBSET Unsynced(appointments) ELSE {{}}

\* Lines 156-522, up to the INSERT of a confirmed appointment: save_message,
\* then the command or the state machine.  Only the idempotency check
\* reads the messages table, so the save and what follows are one step.
Dispatch(r) ==
    /\ requests[r].pc = "dispatch"
    /\ messages' = save_message(messages, requests[r].sid)
    /\ \E ref \in RefDraws(requests[r]), sheet_read \in SheetReads(requests[r]),
          okset \in OkSets(requests[r]) :
         LET e == whatsapp_webhook(requests[r], ref, sheet_read, okset)
         IN  /\ e.pc # "invalid"
             /\ Len(e.js) <= MaxJobs
             /\ Len(e.appts) <= MaxAppointments
             /\ conversations' = e.convs
             /\ appointments' = e.appts
             /\ jobs' = e.js
             /\ sheet' = e.sh
             /\ IF e.pc = "none" THEN Finish(r)
                ELSE /\ requests' = [requests EXCEPT ![r].pc = e.pc,
                                                     ![r].appt_id = e.appt_id,
                                                     ![r].ref_code = e.ref_code]
                     /\ UNCHANGED completed
    /\ UNCHANGED <<now, settings, workers>>

\* a confirm_sync_appts that takes the booking back when the append fails
confirm_sync_appts_undo(appts, appt_id, ok) ==
    IF ok THEN update_sheet_sync_status(appts, appt_id, "synced", "")
    ELSE [appts EXCEPT ![appt_id].status = "Cancelled"]

\* lines 463-493: the inline append, the sync status, clear_state_machine
\* and the jobs of a confirmed appointment; ok is append_to_sheet's result
confirm_sync_appts(appts, appt_id, ok) ==
    IF ok THEN update_sheet_sync_status(appts, appt_id, "synced", "")
    ELSE update_sheet_sync_status(appts, appt_id, "failed", "Sheets append failed (see logs)")

confirm_jobs(js, req, appt, t) ==
    _schedule_patient_reminder(
        _enqueue_admin_notify(js, settings[req.clinic_id].admins, Some(req.appt_id), t),
        req.user, req.appt_id, appt.date, appt.time, t)

ConfirmSync(r, ok) ==
    LET req == requests[r]
        appt == appointments[req.appt_id]
    IN  /\ req.pc = "confirm_sync"
        /\ Len(confirm_jobs(jobs, req, appt, now)) <= MaxJobs
        /\ sheet' = IF ok THEN append_to_sheet(sheet, appt.date, appt.time, appt.name, req.user,
                                               get_clinic_sheet_config(settings[req.clinic_id]))
                    ELSE sheet
        /\ appointments' = confirm_sync_appts(appointments, req.appt_id, ok)
        /\ conversations' = clear_state_machine(conversations, req.clinic_id, req.user)
        /\ jobs' = confirm_jobs(jobs, req, appt, now)
        /\ Finish(r)
        /\ UNCHANGED <<now, settings, messages, workers>>

(***************************************************************************)
(* worker.py: main, one step at a time.  The position of a worker is       *)
(*   loop           top of while True                                      *)
(*   sweep          in the for loop of sweep_and_enqueue_unsynced, before  *)
(*                  has_pending_sync_job of the first row left             *)
(*   sweep_enqueue  has_pending_sync_job returned False, before enqueue_job*)
(*   claim          before fetch_and_lock_jobs                             *)
(*   handle         before handle_job of the first job left of the batch   *)
(*   ack            handle_job returned ok, before mark_done or            *)
(*                  reschedule_or_fail                                     *)
(* now - last_sweep >= SWEEP_EVERY_SECONDS is a matter of pacing only: the  *)
(* model lets any pass of the loop sweep or not.                           *)
(***************************************************************************)
AfterSweepRow(rows) == IF Tail(rows) = <<>> THEN "claim" ELSE "sweep"

\* the SELECT of sweep_and_enqueue_unsynced (lines 45-59)
sweep_select(appts) == DescSeq(Unsynced(appts), SWEEP_LIMIT)

SweepSelect(w) ==
    /\ workers[w].pc = "loop"
    /\ workers' = [workers EXCEPT ![w].sweep_rows = sweep_select(appointments),
                                  ![w].pc = IF sweep_select(appointments) = <<>>
                                            THEN "claim" ELSE "sweep"]
    /\ UNCHANGED <<now, settings, dbVars, requests, completed>>

SkipSweep(w) ==
    /\ workers[w].pc = "loop"
    /\ workers' = [workers EXCEPT ![w].pc = "claim"]
    /\ UNCHANGED <<now, settings, dbVars, requests, completed>>

\* lines 64-68
SweepCheck(w) ==
    /\ workers[w].pc = "sweep"
    /\ workers' = IF has_pending_sync_job(jobs, Head(workers[w].sweep_rows))
                  THEN [workers EXCEPT ![w].sweep_rows = Tail(@),
                                       ![w].pc = AfterSweepRow(workers[w].sweep_rows)]
                  ELSE [workers EXCEPT ![w].pc = "sweep_enqueue"]
    /\ UNCHANGED <<now, settings, dbVars, requests, completed>>

\* lines 70-82
SweepEnqueue(w) ==
    /\ workers[w].pc = "sweep_enqueue"
    /\ Len(jobs) < MaxJobs
    /\ jobs' = enqueue_job(jobs, "sync_sheet",
                           Payload(Some(Head(workers[w].sweep_rows)),
                                   appointments[Head(workers[w].sweep_rows)].user_number),
                           now, DEFAULT_MAX_ATTEMPTS, now)
    /\ workers' = [workers EXCEPT ![w].sweep_rows = Tail(@),
                                  ![w].pc = AfterSweepRow(workers[w].sweep_rows)]
    /\ UNCHANGED <<now, settings, messages, conversations, appointments, sheet,
                   requests, completed>>

\* lines 103-106
Claim(w) ==
    /\ workers[w].pc = "claim"
    /\ jobs' = fetch_and_lock_jobs(jobs, FETCH_LIMIT, w, now)
    /\ workers' = [workers EXCEPT ![w].batch = fetched_rows(jobs, FETCH_LIMIT, w, now),
                                  ![w].pc = IF fetched_rows(jobs, FETCH_LIMIT, w, now) = <<>>
                                            THEN "loop" ELSE "handle"]
    /\ UNCHANGED <<now, settings, messages, conversations, appointments, sheet,
                   requests, completed>>

\* a handle_job that reports a job of a type it does not know as failed
handle_job_result_known_only(job, ok) == job.job_type = "sync_sheet" /\ ok

\* handle_job (lines 14-37); ok is append_to_sheet's result
handle_job_result(job, ok) == IF job.job_type = "sync_sheet" THEN ok ELSE TRUE

handle_job_appts(appts, job, ok) ==
    IF job.job_type # "sync_sheet" THEN appts
    ELSE IF ok THEN update_sheet_sync_status(appts, job.payload.appointment_id[1], "synced", "")
    ELSE update_sheet_sync_status(appts, job.payload.appointment_id[1], "failed",
                                  "Worker sheets append failed (see logs)")

\* the payload's date, time, name and phone are copies of the row's
handle_job_sheet(sh, appts, job, ok) ==
    IF job.job_type = "sync_sheet" /\ ok
    THEN LET a == appts[job.payload.appointment_id[1]]
         IN  append_to_sheet(sh, a.date, a.time, a.name, a.user_number,
                             get_clinic_sheet_config(settings[a.clinic_id]))
    ELSE sh

\* the numbers handle_job sends a WhatsApp message to: neither branch calls
\* notifier.send_whatsapp, and worker.py does not import it
handle_job_sends(job) == {}

Handle(w, ok) ==
    LET job == Head(workers[w].batch)
    IN  /\ workers[w].pc = "handle"
        /\ (job.job_type # "sync_sheet" => ok)
        /\ appointments' = handle_job_appts(appointments, job, ok)
        /\ sheet' = handle_job_sheet(sheet, appointments, job, ok)
        /\ workers' = [workers EXCEPT ![w].ok = handle_job_result(job, ok),
                                      ![w].pc = "ack"]
        /\ UNCHANGED <<now, settings, messages, conversations, jobs, requests, completed>>

AfterAck(w) ==
    [workers EXCEPT ![w].batch = Tail(@), ![w].ok = TRUE,
                    ![w].pc = IF Tail(workers[w].batch) = <<>> THEN "loop" ELSE "handle"]

\* line 112
AckDone(w) ==
    /\ workers[w].pc = "ack" /\ workers[w].ok
    /\ jobs' = mark_done(jobs, Head(workers[w].batch).id, now)
    /\ workers' = AfterAck(w)
    /\ UNCHANGED <<now, settings, messages, conversations, appointments, sheet,
                   requests, completed>>

\* lines 114-119
AckRetry(w) ==
    /\ workers[w].pc = "ack" /\ ~workers[w].ok
    /\ jobs' = reschedule_or_fail(jobs, Head(workers[w].batch).id,
                                  Head(workers[w].batch).attempts,
                                  Head(workers[w].batch).max_attempts,
                                  "Job handler returned False", now)
    /\ workers' = AfterAck(w)
    /\ UNCHANGED <<now, settings, messages, conversations, appointments, sheet,
                   requests, completed>>

\* lines 112, 120-128: mark_done raises (the database cannot be reached),
\* the except branch runs reschedule_or_fail, which gets through
AckDoneRaises(w) ==
    /\ workers[w].pc = "ack" /\ workers[w].ok
    /\ jobs' = reschedule_or_fail(jobs, Head(workers[w].batch).id,
                                  Head(workers[w].batch).attempts,
                                  Head(workers[w].batch).max_attempts,
                                  "OperationalError", now)
    /\ workers' = AfterAck(w)
    /\ UNCHANGED <<now, settings, messages, conversations, appointments, sheet,
                   requests, completed>>

\* line 103: fetch_and_lock_jobs raises (the database cannot be reached).
\* The call stands outside every try of main: the exception leaves the
\* while loop and the process ends (pc "exited").
ClaimRaises(w) ==
    /\ workers[w].pc = "claim"
    /\ workers' = [workers EXCEPT ![w] = [IdleWorker EXCEPT !.pc = "exited"]]
    /\ UNCHANGED <<now, settings, dbVars, requests, completed>>

\* lines 114-128: the handler returned False and reschedule_or_fail raises;
\* the except branch calls reschedule_or_fail again, outside any try, and it
\* raises again: the exception leaves main with the job still running
AckRetryRaises(w) ==
    /\ workers[w].pc = "ack" /\ ~workers[w].ok
    /\ workers' = [workers EXCEPT ![w] = [IdleWorker EXCEPT !.pc = "exited"]]
    /\ UNCHANGED <<now, settings, dbVars, requests, completed>>

\* the worker process dies (killed, or an exception leaves main) and is
\* started again: its locals are gone, the tables stay as they are
Crash(w) ==
    /\ workers[w] # IdleWorker
    /\ workers' = [workers EXCEPT ![w] = IdleWorker]
    /\ UNCHANGED <<now, settings, dbVars, requests, completed>>

\* time passes until a queued job falls due
Tick ==
    /\ \E j \in JobIds : /\ jobs[j].status = "queued"
                         /\ jobs[j].run_at > now
                         /\ jobs[j].run_at <= MaxNow
                         /\ now' = jobs[j].run_at
    /\ UNCHANGED <<settings, dbVars, requests, completed, workers>>

(***************************************************************************)
(* Specifications.                                                         *)
(***************************************************************************)
DefaultSettings ==
    [admins |-> <<>>, sheet_id |-> "", weekly |-> DEFAULT_WEEKLY,
     slot_minutes |-> DEFAULT_SLOT_MINUTES]

OpenDate == DateTxt(2026, 1, 15)   \* a Thursday
PatientName == Txt("Jane Doe")

\* What a user sends: the answer to the prompt of the conversation's state,
\* or a command.
Answers(clinic_id, user) ==
    LET state == conversations[<<clinic_id, user>>].state
    IN  (CASE state = "idle" -> {Txt("book")}
           [] state = "collect_name" -> {PatientName}
           [] state = "collect_date" -> {OpenDate}
           [] state = "collect_time" -> {TimeTxt(2, 0, "PM")}
           [] OTHER -> {Txt("yes")})
        \cup {Txt("cancel")}

\* The state after construction: empty tables, no request, idle workers.
Init ==
    /\ now = 0
    /\ settings = [c \in Clinics |-> DefaultSettings]
    /\ messages = [s \in Sids \ {""} |-> 0]
    /\ conversations = [k \in Clinics \X Users |-> [state |-> "idle", draft |-> EmptyDraft]]
    /\ appointments = <<>>
    /\ jobs = <<>>
    /\ sheet = <<>>
    /\ requests = [r \in ReqIds |-> NoRequest]
    /\ completed = {}
    /\ workers = [w \in WorkerIds |-> IdleWorker]

\* The webhook alone: the users U booking and cancelling, their requests
\* handled by the handlers R.
Webhook(U, R) ==
    \/ \E r \in R, sid \in Sids, c \in Clinics, u \in U :
          \E b \in Answers(c, u) : Deliver(r, sid, c, u, b)
    \/ \E r \in R : Dispatch(r)
    \/ \E r \in R, ok \in BOOLEAN : ConfirmSync(r, ok)

\* Two users, one request handled after the other.
Next == Webhook(Users, {1})

Spec == Init /\ [][Next]_vars

\* One user, and Twilio delivering a message again while its first delivery
\* is still being handled (routes.py runs one handler per delivery).
Redeliver(r, q) ==
    /\ requests[q].pc # "none"
    /\ Deliver(r, requests[q].sid, requests[q].clinic_id, requests[q].user,
               requests[q].incoming)

NextGate ==
    \/ \E r \in ReqIds, sid \in Sids, c \in Clinics :
          \E b \in Answers(c, "u1") :
             /\ \A q \in ReqIds : requests[q].pc = "none"
             /\ Deliver(r, sid, c, "u1", b)
    \/ \E r, q \in ReqIds : Redeliver(r, q)
    \/ \E r \in ReqIds : Dispatch(r)
    \/ \E r \in ReqIds, ok \in BOOLEAN : ConfirmSync(r, ok)

SpecGate == Init /\ [][NextGate]_vars

\* The queue: the state u1's booking leaves behind when the inline append to
\* the sheet failed - the appointment Booked and unsynced, its reminder
\* queued - then the workers, the clock, and u1 cancelling.
BookedRequest ==
    [pc |-> "confirm_sync", sid |-> "", clinic_id |-> "c1", user |-> "u1",
     incoming |-> Txt("yes"), appt_id |-> 1, ref_code |-> RefCodes[1], replay |-> FALSE]

BookedAppointments ==
    confirm_sync_appts(
        save_appointment_local(<<>>, "c1", "u1", PatientName, OpenDate, HHMM(14, 0), RefCodes[1]),
        1, FALSE)

InitQueue ==
    /\ now = 0
    /\ settings = [c \in Clinics |-> DefaultSettings]
    /\ messages = [s \in Sids \ {""} |-> 0]
    /\ conversations = [k \in Clinics \X Users |-> [state |-> "idle", draft |-> EmptyDraft]]
    /\ appointments = BookedAppointments
    /\ jobs = confirm_jobs(<<>>, BookedRequest, BookedAppointments[1], 0)
    /\ sheet = <<>>
    /\ requests = [r \in ReqIds |-> NoRequest]
    /\ completed = {}
    /\ workers = [w \in WorkerIds |-> IdleWorker]

\* One step of worker w.  F bounds how often the environment fails one job:
\* a failing append or a failing mark_done happens to a job only while its
\* attempts are below F.
MayFail(w, F) == Head(workers[w].batch).attempts < F

WorkerStep(w, F) ==
    \/ SweepSelect(w)
    \/ SkipSweep(w)
    \/ SweepCheck(w)
    \/ SweepEnqueue(w)
    \/ Claim(w)
    \/ \E ok \in BOOLEAN : /\ workers[w].pc = "handle"
                             /\ (ok \/ MayFail(w, F))
                             /\ Handle(w, ok)
    \/ AckDone(w)
    \/ AckRetry(w)

WorkerFault(w, F) ==
    \/ /\ workers[w].pc = "ack"
       /\ MayFail(w, F)
       /\ AckDoneRaises(w)
    \/ Crash(w)

UserCancels ==
    \/ Deliver(1, "", "c1", "u1", Txt("cancel"))
    \/ Dispatch(1)

\* Several workers and their faults.
NextQueue ==
    \/ \E w \in WorkerIds : WorkerStep(w, MaxFailures)
    \/ \E w \in WorkerIds : WorkerFault(w, MaxFailures)
    \/ Tick

SpecQueue == InitQueue /\ [][NextQueue]_vars

\* One worker, its faults, and the user cancelling.
NextCancel ==
    \/ WorkerStep(1, MaxFailures)
    \/ WorkerFault(1, MaxFailures)
    \/ Tick
    \/ UserCancels

SpecCancel == InitQueue /\ [][NextCancel]_vars

\* One worker and an append that may fail every time.
NextRetry ==
    \/ WorkerStep(1, DEFAULT_MAX_ATTEMPTS)
    \/ Tick

SpecRetry == InitQueue /\ [][NextRetry]_vars

\* The workers under fair scheduling.  A worker may die while it holds
\* claimed jobs and is started again.  Every worker keeps taking steps, the
\* sweep timer keeps coming due, the clock reaches the run_at of a queued
\* job, and the append to the sheet fails a job at most MaxFailures times.
CrashHolding(w) ==
    /\ workers[w].batch # <<>>
    /\ Crash(w)

NextLive ==
    \/ \E w \in WorkerIds : WorkerStep(w, MaxFailures)
    \/ \E w \in WorkerIds : CrashHolding(w)
    \/ Tick

Fairness ==
    /\ \A w \in WorkerIds : WF_vars(WorkerStep(w, MaxFailures))
    /\ \A w \in WorkerIds : SF_vars(SweepSelect(w))
    /\ WF_vars(Tick)

SpecLive == InitQueue /\ [][NextLive]_vars /\ Fairness

\* The whole conversation: a clinic whose admin is u2, and the users sending
\* answers that pass the validation of their prompt, answers that fail it
\* (no date, a Sunday, no time, after hours, off the 30-minute slots, neither
\* yes nor no), and every command.
InvalidInputs(state) ==
    CASE state = "collect_date" -> {DateTxt(2026, 1, 18), Txt("tomorrow"), DateTxt(2026, 2, 30)}
      [] state = "collect_time" -> {Txt("2pm"), TimeTxt(25, 0, ""), TimeTxt(8, 0, "PM"),
                                    TimeTxt(2, 15, "PM"), TimeTxt(8, 15, "PM")}
      [] state = "confirm" -> {Txt("maybe")}
      [] OTHER -> {}

PromptInputs(state) ==
    (CASE state = "idle" -> {Txt("book"), Txt("i want to book"), Txt("hello")}
       [] state = "collect_name" -> {PatientName}
       [] state = "collect_date" -> {OpenDate}
       [] state = "collect_time" -> {TimeTxt(2, 0, "PM")}
       [] OTHER -> {Txt("yes"), Txt("y"), Txt("no"), Txt("n")})
    \cup InvalidInputs(state)

CommandInputs ==
    {Txt(s) : s \in Commands} \cup {CancelRefTxt(RefCodes[i]) : i \in 1..Len(RefCodes)}

InitFlow ==
    /\ now = 0
    /\ settings = [c \in Clinics |-> [DefaultSettings EXCEPT !.admins = <<"u2">>]]
    /\ messages = [s \in Sids \ {""} |-> 0]
    /\ conversations = [k \in Clinics \X Users |-> [state |-> "idle", draft |-> EmptyDraft]]
    /\ appointments = <<>>
    /\ jobs = <<>>
    /\ sheet = <<>>
    /\ requests = [r \in ReqIds |-> NoRequest]
    /\ completed = {}
    /\ workers = [w \in WorkerIds |-> IdleWorker]

NextFlow ==
    \/ \E c \in Clinics, u \in Users :
          \E b \in PromptInputs(conversations[<<c, u>>].state) \cup CommandInputs :
             Deliver(1, "", c, u, b)
    \/ Dispatch(1)
    \/ \E ok \in BOOLEAN : ConfirmSync(1, ok)

SpecFlow == InitFlow /\ [][NextFlow]_vars

\* One worker and a database that may fail any of its calls: the claim, or
\* the acknowledgement of a job.
NextFaults ==
    \/ WorkerStep(1, MaxFailures)
    \/ /\ workers[1].pc = "ack"
       /\ MayFail(1, MaxFailures)
       /\ AckDoneRaises(1)
    \/ ClaimRaises(1)
    \/ AckRetryRaises(1)
    \/ Tick

SpecFaults == InitQueue /\ [][NextFaults]_vars

\* The operations of the queue on any jobs table: MaxTable jobs of either
\* type, for either of two appointments, in any status, due or not, a running
\* job held by worker 2 and a failed one out of attempts.  Worker 1 claims
\* with any limit and the jobs of an appointment are cancelled.
JobRows ==
    {[id |-> 0, job_type |-> ty, payload |-> Payload(Some(a), "u1"), status |-> st,
      run_at |-> ra,
      attempts |-> IF st = "failed" THEN DEFAULT_MAX_ATTEMPTS ELSE 0,
      max_attempts |-> DEFAULT_MAX_ATTEMPTS,
      last_error |-> IF st = "failed" THEN Some("Job handler returned False") ELSE Null,
      locked_at |-> IF st = "running" THEN Some(0) ELSE Null,
      locked_by |-> IF st = "running" THEN Some(WORKER_NAME(2)) ELSE Null,
      updated_at |-> 0] :
        ty \in {"sync_sheet", "patient_reminder"}, a \in 1..2,
        st \in {"queued", "running", "done", "failed", "cancelled"}, ra \in {0, 60}}

InitJobs ==
    /\ now = 30
    /\ settings = [c \in Clinics |-> DefaultSettings]
    /\ messages = [s \in Sids \ {""} |-> 0]
    /\ conversations = [k \in Clinics \X Users |-> [state |-> "idle", draft |-> EmptyDraft]]
    /\ appointments = save_appointment_local(BookedAppointments, "c1", "u1", PatientName,
                                             OpenDate, HHMM(15, 0), RefCodes[2])
    /\ \E f \in [1..MaxTable -> JobRows] : jobs = [i \in 1..MaxTable |-> [f[i] EXCEPT !.id = i]]
    /\ sheet = <<>>
    /\ requests = [r \in ReqIds |-> NoRequest]
    /\ completed = {}
    /\ workers = [w \in WorkerIds |-> IdleWorker]

NextJobs ==
    \/ \E n \in 1..MaxTable :
          /\ jobs' = fetch_and_lock_jobs(jobs, n, 1, now)
          /\ workers' = [workers EXCEPT ![1].batch = fetched_rows(jobs, n, 1, now)]
          /\ UNCHANGED <<now, settings, messages, conversations, appointments, sheet,
                         requests, completed>>
    \/ \E ty \in {"sync_sheet", "patient_reminder"}, a \in 1..2 :
          /\ jobs' = cancel_jobs_for_appointment(jobs, ty, a, now)
          /\ UNCHANGED <<now, settings, messages, conversations, appointments, sheet,
                         requests, completed, workers>>

SpecJobs == InitJobs /\ [][NextJobs]_vars

\* One booking and the worker: u1 answers the prompts up to the "yes", the
\* inline append succeeds or fails, and one worker sweeps, claims and runs
\* the jobs of the appointment.
NextBook ==
    \/ \E b \in Answers("c1", "u1") \ {Txt("cancel")} : Deliver(1, "", "c1", "u1", b)
    \/ Dispatch(1)
    \/ \E ok \in BOOLEAN : ConfirmSync(1, ok)
    \/ WorkerStep(1, MaxFailures)
    \/ Tick

SpecBook == InitFlow /\ [][NextBook]_vars

\* Two clinics in one database.  Each has its own sheet or none (it then
\* falls back to the default sheet); u1 writes to both numbers, booking,
\* cancelling and cancelling by ref code.
Tenants == {"c1", "c2"}

InitTenants ==
    /\ now = 0
    /\ \E own \in SUBSET Tenants :
          settings = [c \in Tenants |->
                         [DefaultSettings EXCEPT !.sheet_id = IF c \in own THEN c ELSE ""]]
    /\ messages = [s \in Sids \ {""} |-> 0]
    /\ conversations = [k \in Tenants \X Users |-> [state |-> "idle", draft |-> EmptyDraft]]
    /\ appointments = <<>>
    /\ jobs = <<>>
    /\ sheet = <<>>
    /\ requests = [r \in ReqIds |-> NoRequest]
    /\ completed = {}
    /\ workers = [w \in WorkerIds |-> IdleWorker]

NextTenants ==
    \/ \E c \in Tenants :
          \E b \in Answers(c, "u1") \cup {CancelRefTxt(RefCodes[1])} : Deliver(1, "", c, "u1", b)
    \/ Dispatch(1)
    \/ \E ok \in BOOLEAN : ConfirmSync(1, ok)

SpecTenants == InitTenants /\ [][NextTenants]_vars

(***************************************************************************)
(* Properties of the booking flow                                          *)
(***************************************************************************)
ConvKey(r) == <<requests[r].clinic_id, requests[r].user>>

\* request r is about to run the confirm branch with a "yes"
ConfirmsYes(r) ==
    /\ requests[r].pc = "dispatch"
    /\ ~IsCommand(requests[r].incoming)
    /\ conversations[ConvKey(r)].state = "confirm"
    /\ requests[r].incoming = Txt("yes")

\* ... for a slot that a Booked appointment of the clinic already holds
ConfirmsTakenSlot(r) ==
    /\ ConfirmsYes(r)
    /\ SlotRows(appointments, requests[r].clinic_id,
                conversations[ConvKey(r)].draft.date,
                conversations[ConvKey(r)].draft.time) # {}

C2_LateConfirmReturnsToCollectTime ==
    [][\A r \in ReqIds :
          (ConfirmsTakenSlot(r) /\ requests'[r].pc # "dispatch") =>
             /\ appointments' = appointments
             /\ conversations'[ConvKey(r)].state = "collect_time"
             /\ conversations'[ConvKey(r)].draft.name = conversations[ConvKey(r)].draft.name
             /\ conversations'[ConvKey(r)].draft.date = conversations[ConvKey(r)].draft.date]_vars

(***************************************************************************)
(* Properties of the idempotency gate                                      *)
(***************************************************************************)
\* C4: a message delivered again under a non-empty sid whose handling has
\* completed is turned away (it never reaches save_message or the state
\* machine), and its delivery leaves conversations, appointments, jobs and
\* the sheet as they were.
C4_ReplayChangesNothing ==
    /\ [](\A r \in ReqIds : requests[r].replay => requests[r].pc = "none")
    /\ [][\A r \in ReqIds :
            (requests'[r] # requests[r] /\ requests'[r].replay) =>
               UNCHANGED <<conversations, appointments, jobs, sheet>>]_vars

\* a handler has turned away the replay of a completed sid, after that
\* sid's first delivery moved its conversation on
C4_ReplayTurnedAway ==
    \E r \in ReqIds :
        /\ requests[r].pc = "none"
        /\ requests[r].replay
        /\ requests[r].sid \in completed
        /\ \E k \in Clinics \X Users : conversations[k].state # "idle"

\* C5: the messages table never holds two inbound rows with the same
\* non-empty twilio_sid, and no two handlers are past the check with the
\* same non-empty sid.
C5_InsertIfAbsent ==
    /\ \A sid \in Sids \ {""} : messages[sid] <= 1
    /\ \A r1, r2 \in ReqIds :
          ( /\ requests[r1].pc # "none" /\ requests[r2].pc # "none"
            /\ requests[r1].sid = requests[r2].sid
            /\ requests[r1].sid # "" ) => r1 = r2

(***************************************************************************)
(* Properties of the job queue                                             *)
(***************************************************************************)
\* worker w has claimed job j and not acked it yet
Holds(w, j) == \E n \in 1..Len(workers[w].batch) : workers[w].batch[n].id = j

\* job j goes from another status to running in this step
BecomesRunning(j) == jobs[j].status # "running" /\ jobs'[j].status = "running"

\* C3: no two workers hold the same job; a job becomes running only in the
\* step in which one worker gets it, with locked_by and locked_at set by
\* that same step; a running job has its lock fields set.
C3_ClaimIsExclusive ==
    /\ [](\A j \in JobIds :
            /\ \A w1, w2 \in WorkerIds : (Holds(w1, j) /\ Holds(w2, j)) => w1 = w2
            /\ jobs[j].status = "running" =>
                  (jobs[j].locked_by # Null /\ jobs[j].locked_at # Null))
    /\ [][\A j \in JobIds :
            BecomesRunning(j) =>
               \E w \in WorkerIds :
                  /\ ~Holds(w, j)
                  /\ \E n \in 1..Len(workers'[w].batch) : workers'[w].batch[n].id = j
                  /\ jobs'[j].locked_by = Some(WORKER_NAME(w))
                  /\ jobs'[j].locked_at = Some(now)]_vars

\* two workers hold jobs at the same time, all of them running
C3_TwoWorkersHoldJobs ==
    \E w1, w2 \in WorkerIds :
        /\ w1 # w2
        /\ workers[w1].batch # <<>> /\ workers[w2].batch # <<>>
        /\ \A j \in JobIds : (Holds(w1, j) \/ Holds(w2, j)) => jobs[j].status = "running"

\* the delays of the first to the seventh retry, in seconds
RetryDelays == <<30, 60, 120, 240, 480, 960, 1920>>

\* C6: the k-th failure of a job (k = 1..7) queues it again with run_at
\* RetryDelays[k] seconds after the failure; the 8th sets it failed with
\* attempts 8 and a last_error; a failed job stays failed and keeps its
\* run_at, so it is not claimed again.
C6_BackoffThenFailed ==
    /\ [](\A j \in JobIds :
            /\ jobs[j].attempts <= 8
            /\ jobs[j].status = "failed" =>
                  (jobs[j].attempts = 8 /\ jobs[j].last_error # Null))
    /\ [][\A j \in JobIds :
            /\ jobs'[j].attempts \in {jobs[j].attempts, jobs[j].attempts + 1}
            /\ jobs'[j].attempts = jobs[j].attempts + 1 =>
                  IF jobs'[j].attempts < 8
                  THEN /\ jobs'[j].status = "queued"
                       /\ jobs'[j].run_at = now + RetryDelays[jobs'[j].attempts]
                  ELSE /\ jobs'[j].status = "failed"
                       /\ jobs'[j].last_error # Null
            /\ jobs[j].status = "failed" =>
                  (jobs'[j].status = "failed" /\ jobs'[j].run_at = jobs[j].run_at)]_vars

\* a job has failed for good after seven retries and a later job is queued
C6_JobFailedAfterEight ==
    \E j \in JobIds : /\ jobs[j].status = "failed"
                       /\ jobs[j].attempts = 8
                       /\ jobs[j].run_at = 30 + 60 + 120 + 240 + 480 + 960 + 1920

\* C7: a job that is done or cancelled is never queued again.
C7_DoneOrCancelledNeverQueued ==
    [][\A j \in JobIds :
          jobs[j].status \in {"done", "cancelled"} => jobs'[j].status # "queued"]_vars

\* C10: an appointment never has two sync_sheet jobs that are queued or
\* running.
C10_OnePendingSyncJob ==
    \A a \in ApptIds : Cardinality(PendingJobs(jobs, "sync_sheet", a)) <= 1

(***************************************************************************)
(* Properties of the workers under fair scheduling                         *)
(***************************************************************************)
Unsynced_(a) ==
    /\ a \in ApptIds
    /\ appointments[a].status = "Booked"
    /\ appointments[a].sheet_sync_status \in {"pending", "failed"}

\* C8: every Booked appointment that is pending or failed is synced in the
\* end, worker crashes or not.
C8_EventuallySynced ==
    \A a \in 1..MaxAppointments :
        Unsynced_(a) ~> (a \in ApptIds /\ appointments[a].sheet_sync_status = "synced")

\* C9: no job stays running for ever: a job whose worker died is claimed
\* again and leaves running.
C9_RunningJobIsRedelivered ==
    \A j \in 1..MaxJobs :
        (j \in JobIds /\ jobs[j].status = "running")
            ~> (j \in JobIds /\ jobs[j].status # "running")

C12_BookingLeavesOneSyncAndOneReminder ==
    [][\A r \in ReqIds :
          (requests[r].pc = "confirm_sync" /\ requests'[r].pc = "none") =>
             LET a == requests[r].appt_id
                 same == {i \in 1..Len(appointments') :
                             /\ appointments'[i].status = "Booked"
                             /\ appointments'[i].clinic_id = requests[r].clinic_id
                             /\ appointments'[i].user_number = requests[r].user
                             /\ appointments'[i].name = appointments[a].name
                             /\ appointments'[i].date = appointments[a].date
                             /\ appointments'[i].time = appointments[a].time}
             IN  /\ conversations'[ConvKey(r)] = [state |-> "idle", draft |-> EmptyDraft]
                 /\ same = {a}
                 /\ Cardinality(PendingJobs(jobs', "sync_sheet", a)) = 1
                 /\ Cardinality(PendingJobs(jobs', "patient_reminder", a)) = 1]_vars

\* request r is about to be answered by a prompt whose validation its text
\* fails: an invalid date, time or confirmation, or the time of a slot that
\* a Booked appointment holds
FailsValidation(r) ==
    LET conv == conversations[ConvKey(r)]
    IN  /\ requests[r].pc = "dispatch"
        /\ ~IsCommand(requests[r].incoming)
        /\ \/ requests[r].incoming \in InvalidInputs(conv.state)
           \/ /\ conv.state = "collect_time"
              /\ requests[r].incoming = TimeTxt(2, 0, "PM")
              /\ SlotRows(appointments, requests[r].clinic_id, conv.draft.date,
                          HHMM(14, 0)) # {}

Reprompts ==
    {"Please type the date like 2026-01-15 (YYYY-MM-DD).",
     "Sorry, we're closed on that day. Please choose another date.",
     "Please type the time like 09:30 (HH:MM) or 2:30 PM.",
     "That time is outside working hours for {date}.",
     "Please choose a time that matches our {slot_minutes}-minute slots.",
     "That slot is already booked. Choose another time.",
     "Please reply with 'yes' to confirm or 'no' to cancel."}

\* C13: in collect_date, collect_time and confirm an input that fails
\* validation is answered with a re-prompt, never an error, and its pass
\* leaves the conversation's state and draft, the appointments and the jobs
\* as they were.
C13_InvalidInputReprompts ==
    /\ [](\A r \in ReqIds :
             FailsValidation(r) =>
                \A ref \in RefDraws(requests[r]), sheet_read \in SheetReads(requests[r]) :
                   webhook_reply(requests[r], ref, sheet_read) \in Reprompts)
    /\ [][\A r \in ReqIds :
             (FailsValidation(r) /\ requests'[r] # requests[r]) =>
                /\ requests'[r].pc = "none"
                /\ UNCHANGED <<conversations, appointments, jobs, sheet>>]_vars

\* u2 answers the time prompt with 2:00 PM while u1's Booked appointment
\* holds that slot
C13_TakenSlotIsAnswered ==
    \E r \in ReqIds :
        /\ FailsValidation(r)
        /\ conversations[ConvKey(r)].state = "collect_time"
        /\ requests[r].incoming = TimeTxt(2, 0, "PM")

\* C14: at the "yes" the appointment is Booked before the sheet is appended
\* to; when the append fails the pass still ends with the conversation idle,
\* the confirmation as reply and the appointment Booked with sync status
\* failed; and no step of the worker, whatever its sync jobs come to, takes
\* Booked away.
C14_FailedAppendKeepsBooking ==
    /\ [](\A r \in ReqIds :
             requests[r].pc = "confirm_sync" =>
                appointments[requests[r].appt_id].status = "Booked")
    /\ [][\A r \in ReqIds :
             (requests[r].pc = "confirm_sync" /\ requests'[r].pc = "none" /\ sheet' = sheet) =>
                /\ appointments'[requests[r].appt_id].status = "Booked"
                /\ appointments'[requests[r].appt_id].sheet_sync_status = "failed"
                /\ conversations'[ConvKey(r)] = [state |-> "idle", draft |-> EmptyDraft]
                /\ webhook_reply(requests[r], requests[r].ref_code, FALSE)
                      = "Appointment confirmed for {date} at {time_24}"]_vars
    /\ [][\A a \in 1..Len(appointments) :
             appointments[a].status = "Booked" => appointments'[a].status = "Booked"]_vars

\* the inline append failed, a sync job of the appointment failed as well,
\* and the appointment is Booked
C14_SyncJobFailedBookingStands ==
    \E a \in 1..Len(appointments) :
        /\ appointments[a].status = "Booked"
        /\ appointments[a].sheet_sync_status = "failed"
        /\ \E j \in 1..Len(jobs) : /\ jobs[j].job_type = "sync_sheet"
                                   /\ jobs[j].payload.appointment_id = Some(a)
                                   /\ jobs[j].attempts >= 1

(***************************************************************************)
(* Properties of the worker loop                                           *)
(***************************************************************************)
\* C15: a handler's failure is acknowledged by one reschedule_or_fail of its
\* job (attempts plus one, queued again or failed), and no exception - one
\* raised by the claim or by the acknowledgement included - leaves the
\* loop of the worker.
C15_NoExceptionLeavesTheLoop ==
    /\ [](\A w \in WorkerIds : workers[w].pc # "exited")
    /\ [][\A w \in WorkerIds :
             (workers[w].pc = "ack" /\ ~workers[w].ok /\ workers'[w] # workers[w]) =>
                LET id == Head(workers[w].batch).id
                IN  /\ jobs'[id].attempts = Head(workers[w].batch).attempts + 1
                    /\ jobs'[id].status \in {"queued", "failed"}]_vars

\* C16: the worker sends the message of a patient_reminder or notify_admin
\* job to the number in its payload when it handles the job, before the
\* job is marked done.
C16_NotificationSentBeforeDone ==
    [][\A w \in WorkerIds :
          (/\ workers[w].pc = "handle"
           /\ workers'[w].pc = "ack"
           /\ Head(workers[w].batch).job_type \in {"patient_reminder", "notify_admin"})
          => Head(workers[w].batch).payload.to \in handle_job_sends(Head(workers[w].batch))]_vars

C18_RefCodesDistinctAndRetried ==
    /\ [](\A a, b \in 1..Len(appointments) :
             (a # b /\ appointments[a].clinic_id = appointments[b].clinic_id)
                => appointments[a].ref_code # appointments[b].ref_code)
    /\ [][\A r \in ReqIds :
             (ConfirmsYes(r) /\ requests'[r] # requests[r])
                => Len(appointments') = Len(appointments) + 1]_vars

\* request r is a cancel <REF> whose code is that of a Booked appointment of
\* the clinic booked from another number
CancelRefByStranger(r) ==
    /\ requests[r].pc = "dispatch"
    /\ requests[r].incoming.kind = "cancelref"
    /\ \E a \in 1..Len(appointments) :
          /\ appointments[a].clinic_id = requests[r].clinic_id
          /\ appointments[a].ref_code = requests[r].incoming.s
          /\ appointments[a].status = "Booked"
          /\ appointments[a].user_number # requests[r].user

NonAdminCommand(r) ==
    /\ requests[r].pc = "dispatch"
    /\ requests[r].incoming \in {Txt(s) : s \in AdminCommands}
    /\ requests[r].user \notin SeqRange(settings[requests[r].clinic_id].admins)

\* C20: today, retry sheets, jobs and failed jobs from a number that is no
\* admin are answered with "Not authorized." and leave the appointments,
\* the jobs, the sheet and the conversations as they were.
C20_NonAdminIsRefused ==
    /\ [](\A r \in ReqIds :
             NonAdminCommand(r) =>
                webhook_reply(requests[r], "FAIL", FALSE) = "Not authorized.")
    /\ [][\A r \in ReqIds :
             (NonAdminCommand(r) /\ requests'[r] # requests[r]) =>
                /\ requests'[r].pc = "none"
                /\ UNCHANGED <<conversations, appointments, jobs, sheet>>]_vars

\* u1, no admin, sends "retry sheets" while an appointment is unsynced
C20_NonAdminSendsRetrySheets ==
    \E r \in ReqIds :
        /\ NonAdminCommand(r)
        /\ requests[r].incoming = Txt("retry sheets")
        /\ Unsynced(appointments) # {}

(***************************************************************************)
(* Properties of the commands and of the prompts                           *)
(***************************************************************************)
\* C21: from whatever state, reset, cancel and cancel <REF> leave the
\* sender's conversation idle with an empty draft; cancel sets the sender's
\* latest Booked appointment, if there is one, to Cancelled and changes no
\* other appointment.
C21_CancelAndResetReturnToIdle ==
    [][\A r \in ReqIds :
          (/\ requests[r].pc = "dispatch"
           /\ \/ requests[r].incoming \in {Txt("reset"), Txt("cancel")}
              \/ requests[r].incoming.kind = "cancelref"
           /\ requests'[r] # requests[r]) =>
             LET mine == BookedOf(appointments, requests[r].clinic_id, requests[r].user)
             IN  /\ conversations'[ConvKey(r)] = [state |-> "idle", draft |-> EmptyDraft]
                 /\ requests[r].incoming = Txt("cancel") =>
                       \A a \in 1..Len(appointments) :
                          appointments'[a] =
                             IF mine # {} /\ a = SetMax(mine)
                             THEN [appointments[a] EXCEPT !.status = "Cancelled"]
                             ELSE appointments[a]]_vars

\* C22: from whatever state, reschedule sets the sender's latest Booked
\* appointment, if there is one, to Cancelled, changes no other appointment
\* and leaves the conversation in collect_name with an empty draft.
C22_RescheduleReentersCollectName ==
    [][\A r \in ReqIds :
          (/\ requests[r].pc = "dispatch"
           /\ requests[r].incoming = Txt("reschedule")
           /\ requests'[r] # requests[r]) =>
             LET mine == BookedOf(appointments, requests[r].clinic_id, requests[r].user)
             IN  /\ conversations'[ConvKey(r)] = [state |-> "collect_name", draft |-> EmptyDraft]
                 /\ \A a \in 1..Len(appointments) :
                       appointments'[a] =
                          IF mine # {} /\ a = SetMax(mine)
                          THEN [appointments[a] EXCEPT !.status = "Cancelled"]
                          ELSE appointments[a]]_vars

\* u1 holds a Booked appointment, is asked for a date again and sends
\* reschedule
C22_RescheduleWhileBooking ==
    \E r \in ReqIds :
        /\ requests[r].pc = "dispatch"
        /\ requests[r].incoming = Txt("reschedule")
        /\ conversations[ConvKey(r)].state = "collect_date"
        /\ BookedOf(appointments, requests[r].clinic_id, requests[r].user) # {}

C29_KeywordInIdleStartsBooking ==
    [][\A r \in ReqIds :
          (/\ requests[r].pc = "dispatch"
           /\ requests'[r] # requests[r]
           /\ conversations[ConvKey(r)].state = "idle"
           /\ requests[r].incoming.kind = "txt"
           /\ ContainsBookingKeyword(requests[r].incoming.s)) =>
             conversations'[ConvKey(r)] = [state |-> "collect_name", draft |-> EmptyDraft]]_vars

\* C29: in idle a message that is not a command and contains a booking
\* keyword sets the state to collect_name with an empty draft and creates
\* nothing; any other message that is not a command leaves the
\* conversations, the appointments and the jobs as they were.
C29_NonCommandKeywordInIdleStartsBooking ==
    [][\A r \in ReqIds :
          (/\ requests[r].pc = "dispatch"
           /\ requests'[r] # requests[r]
           /\ conversations[ConvKey(r)].state = "idle"
           /\ ~IsCommand(requests[r].incoming)) =>
             /\ requests'[r].pc = "none"
             /\ UNCHANGED <<appointments, jobs, sheet>>
             /\ IF requests[r].incoming \in {Txt("book"), Txt("i want to book")}
                THEN conversations' =
                        [conversations EXCEPT ![ConvKey(r)] =
                            [state |-> "collect_name", draft |-> EmptyDraft]]
                ELSE UNCHANGED conversations]_vars

\* u1, idle again after a booking, sends a sentence with "book" in it
C29_SentenceWithKeywordWhileIdle ==
    \E r \in ReqIds :
        /\ requests[r].pc = "dispatch"
        /\ requests[r].incoming = Txt("i want to book")
        /\ conversations[ConvKey(r)].state = "idle"
        /\ BookedOf(appointments, requests[r].clinic_id, requests[r].user) # {}

\* whether a minute of the day lies in an opening interval of the date's weekday
InsideHours(clinic_id, date, tmin) ==
    LET ivs == settings[clinic_id].weekly[DayKeys[Weekday(date.x, date.y, date.z) + 1]]
    IN  \E i \in 1..Len(ivs) :
           /\ ivs[i].start.h * 60 + ivs[i].start.m <= tmin
           /\ tmin < ivs[i].end.h * 60 + ivs[i].end.m

C24_AckRetryAndAckDone ==
    /\ [](\A j \in 1..Len(jobs) : jobs[j].last_error = Null => jobs[j].attempts = 0)
    /\ [][\A w \in WorkerIds :
             (workers[w].pc = "ack" /\ workers'[w] # workers[w]) =>
                LET id == Head(workers[w].batch).id
                    a == jobs[id].attempts
                IN  /\ jobs[id].status = "running"
                    /\ \A j \in 1..Len(jobs) : j # id => jobs'[j] = jobs[j]
                    /\ IF workers[w].ok
                       THEN /\ jobs'[id].status = "done"
                            /\ jobs'[id].attempts = a
                            /\ jobs'[id].locked_by = Null /\ jobs'[id].locked_at = Null
                       ELSE /\ jobs'[id].attempts = a + 1
                            /\ jobs'[id].last_error # Null
                            /\ IF a + 1 >= jobs[id].max_attempts
                               THEN jobs'[id].status = "failed"
                               ELSE /\ jobs'[id].status = "queued"
                                    /\ jobs'[id].run_at = now + 30 * Pow2(a)
                                    /\ jobs'[id].locked_by = Null
                                    /\ jobs'[id].locked_at = Null]_vars

\* a job failed three times and then succeeded: it is done with attempts 3
C24_DoneAfterThreeFailures ==
    \E j \in 1..Len(jobs) : jobs[j].status = "done" /\ jobs[j].attempts = 3

\* C25: the sync status and the sync error of an appointment are written by
\* the worker's handling of a job only: a step that changes them is a step
\* of a worker, never one of a webhook request.
C25_SyncFieldsWrittenByWorkerOnly ==
    [][\A a \in 1..Len(appointments) :
          (\/ appointments'[a].sheet_sync_status # appointments[a].sheet_sync_status
           \/ appointments'[a].sheet_sync_error # appointments[a].sheet_sync_error)
          => /\ workers' # workers
             /\ requests' = requests]_vars

\* C26: "my appointment", in whatever state it is sent, leaves the
\* conversations, the appointments and the jobs unchanged.
C26_MyAppointmentOnlyReads ==
    [][\A r \in ReqIds :
          (/\ requests[r].pc = "dispatch"
           /\ requests[r].incoming = Txt("my appointment")
           /\ requests'[r] # requests[r]) =>
             /\ requests'[r].pc = "none"
             /\ UNCHANGED <<conversations, appointments, jobs, sheet>>]_vars

\* u1 holds a Booked appointment, is asked for a time in a new booking and
\* sends "my appointment"
C26_MyAppointmentWhileBooking ==
    \E r \in ReqIds :
        /\ requests[r].pc = "dispatch"
        /\ requests[r].incoming = Txt("my appointment")
        /\ conversations[ConvKey(r)].state = "collect_time"
        /\ BookedOf(appointments, requests[r].clinic_id, requests[r].user) # {}

\* C27: a claim with limit n returns at most n jobs, each queued and due
\* (run_at <= now) before the claim and running under the claimant after
\* it; no job that is running, done, failed, cancelled or scheduled later is
\* returned, and every job not returned stays as it was.
C27_ClaimTakesDueQueuedJobsOnly ==
    /\ [](\A n \in 1..MaxTable, w \in WorkerIds :
             LET rows == fetched_rows(jobs, n, w, now)
                 after == fetch_and_lock_jobs(jobs, n, w, now)
                 ids == {rows[i].id : i \in 1..Len(rows)}
             IN  /\ Len(rows) <= n
                 /\ Cardinality(ids) = Len(rows)
                 /\ \A i \in 1..Len(rows) :
                       /\ jobs[rows[i].id].status = "queued"
                       /\ jobs[rows[i].id].run_at <= now
                       /\ rows[i].status = "running"
                       /\ rows[i].locked_by = Some(w)
                       /\ after[rows[i].id] = rows[i]
                 /\ \A j \in 1..Len(jobs) : j \notin ids => after[j] = jobs[j])
    /\ [][\A j \in 1..Len(jobs) :
             (workers' # workers /\ jobs'[j] # jobs[j]) =>
                /\ jobs[j].status = "queued" /\ jobs[j].run_at <= now
                /\ \E i \in 1..Len(workers'[1].batch) : workers'[1].batch[i] = jobs'[j]]_vars

\* worker 1 claimed with limit 1: it holds one job and the other job, queued
\* and due as well, is still queued
C27_LimitLeavesDueJobQueued ==
    /\ Len(workers[1].batch) = 1
    /\ jobs[workers[1].batch[1].id].locked_by = Some(1)
    /\ \E j \in 1..Len(jobs) : jobs[j].status = "queued" /\ jobs[j].run_at <= now

\* C30: cancel_jobs_for_appointment(type, id) sets exactly the queued and
\* running jobs of that type and appointment to cancelled and clears their
\* lock; every other job - of another type, another appointment, or done,
\* failed or cancelled already - stays as it was.
C30_CancelTouchesPendingJobsOfTheAppointment ==
    /\ [](\A ty \in {"sync_sheet", "patient_reminder"}, a \in 1..2 :
             \A j \in 1..Len(jobs) :
                cancel_jobs_for_appointment(jobs, ty, a, now)[j] =
                   IF /\ jobs[j].job_type = ty
                      /\ jobs[j].payload.appointment_id = Some(a)
                      /\ jobs[j].status \in {"queued", "running"}
                   THEN [jobs[j] EXCEPT !.status = "cancelled", !.locked_at = Null,
                                        !.locked_by = Null, !.updated_at = now]
                   ELSE jobs[j])
    /\ [][(workers' = workers /\ jobs' # jobs) =>
             \E ty \in {"sync_sheet", "patient_reminder"}, a \in 1..2 :
                \A j \in 1..Len(jobs) :
                   IF /\ jobs[j].job_type = ty
                      /\ jobs[j].payload.appointment_id = Some(a)
                      /\ jobs[j].status \in {"queued", "running"}
                   THEN /\ jobs'[j].status = "cancelled"
                        /\ jobs'[j].locked_by = Null /\ jobs'[j].locked_at = Null
                   ELSE jobs'[j] = jobs[j]]_vars

\* the reminder of appointment 1 was cancelled at the current time and holds
\* no lock, and the sync job of the same appointment is still queued
C30_ReminderCancelledSyncJobKept ==
    \E j, k \in 1..Len(jobs) :
        /\ jobs[j].job_type = "patient_reminder"
        /\ jobs[j].payload.appointment_id = Some(1)
        /\ jobs[j].status = "cancelled"
        /\ jobs[j].updated_at = now
        /\ jobs[j].locked_by = Null
        /\ jobs[k].job_type = "sync_sheet"
        /\ jobs[k].payload.appointment_id = Some(1)
        /\ jobs[k].status = "queued"

(***************************************************************************)
(* Properties of locks, cancelled jobs and the sweeper                     *)
(***************************************************************************)
\* C31: a job has a lock holder and a lock time if and only if its status
\* is running; done, failed, cancelled and re-queued jobs carry no lock.
C31_LockedIffRunning ==
    \A j \in 1..Len(jobs) :
        /\ (jobs[j].locked_by # Null) <=> (jobs[j].status = "running")
        /\ (jobs[j].locked_at # Null) <=> (jobs[j].status = "running")

\* C32: once a job is cancelled its status never changes again; the
\* acknowledgement of a worker that had claimed it before does not overwrite
\* cancelled.
C32_CancelledIsFinal ==
    [][\A j \in 1..Len(jobs) :
          jobs[j].status = "cancelled" => jobs'[j].status = "cancelled"]_vars

\* C33: an appointment is appended to the sheet at most once: while its sync
\* status is synced no sync_sheet job for it is queued or running, and the
\* sheet holds at most one row of it - also when the sweeper runs between
\* the insert of the appointment and the inline append of the confirm branch.
C33_SyncedOnceNoPendingSyncJob ==
    \A a \in 1..Len(appointments) :
        /\ appointments[a].sheet_sync_status = "synced" =>
              ~\E j \in 1..Len(jobs) :
                   /\ jobs[j].job_type = "sync_sheet"
                   /\ jobs[j].payload.appointment_id = Some(a)
                   /\ jobs[j].status \in {"queued", "running"}
        /\ Cardinality({n \in 1..Len(sheet) :
                           /\ sheet[n].date = appointments[a].date
                           /\ sheet[n].time = appointments[a].time
                           /\ sheet[n].phone = appointments[a].user_number}) <= 1

\* C34: a Booked appointment whose sync status is failed and whose
\* sync_sheet jobs are all failed is selected by the sweep; the sweep does
\* not skip it; and what the sweep enqueues is a fresh sync_sheet job with
\* attempts 0 that is due at once.  The appends tried for one appointment
\* are therefore not bounded by max_attempts.
C34_SweepReEnqueuesAfterFailedJob ==
    /\ [](\A a \in 1..Len(appointments) :
             (appointments[a].status = "Booked" /\ appointments[a].sheet_sync_status = "failed")
                => \E n \in 1..Len(sweep_select(appointments)) : sweep_select(appointments)[n] = a)
    /\ [][\A w \in WorkerIds :
             (/\ workers[w].pc = "sweep"
              /\ workers'[w] # workers[w]
              /\ \A j \in 1..Len(jobs) :
                    (/\ jobs[j].job_type = "sync_sheet"
                     /\ jobs[j].payload.appointment_id = Some(Head(workers[w].sweep_rows)))
                       => jobs[j].status \in {"failed", "done", "cancelled"})
                => workers'[w].pc = "sweep_enqueue"]_vars
    /\ [][\A w \in WorkerIds :
             (workers[w].pc = "sweep_enqueue" /\ workers'[w] # workers[w]) =>
                /\ Len(jobs') = Len(jobs) + 1
                /\ SubSeq(jobs', 1, Len(jobs)) = jobs
                /\ jobs'[Len(jobs')].job_type = "sync_sheet"
                /\ jobs'[Len(jobs')].payload.appointment_id = Some(Head(workers[w].sweep_rows))
                /\ jobs'[Len(jobs')].status = "queued"
                /\ jobs'[Len(jobs')].attempts = 0
                /\ jobs'[Len(jobs')].max_attempts = 8
                /\ jobs'[Len(jobs')].run_at = now]_vars

\* a sync_sheet job of appointment 1 failed after 8 attempts, the sweep
\* enqueued another one, and that one has been tried and has failed too:
\* 9 appends at least
C34_NinthAttemptForOneAppointment ==
    \E j, k \in 1..Len(jobs) :
        /\ jobs[j].job_type = "sync_sheet" /\ jobs[k].job_type = "sync_sheet"
        /\ jobs[j].payload.appointment_id = Some(1)
        /\ jobs[k].payload.appointment_id = Some(1)
        /\ jobs[j].status = "failed" /\ jobs[j].attempts = 8
        /\ j < k /\ jobs[k].attempts >= 1
        /\ appointments[1].status = "Booked"

\* C35: no step of a worker changes the sync status of a Cancelled
\* appointment or appends a row for it to the sheet: a sync_sheet job that
\* is still queued when its appointment is cancelled is not executed.
C35_WorkerLeavesCancelledAppointmentAlone ==
    [][\A w \in WorkerIds :
          (workers[w].pc = "handle" /\ workers'[w] # workers[w]) =>
             \A a \in 1..Len(appointments) :
                appointments[a].status = "Cancelled" =>
                   /\ appointments'[a] = appointments[a]
                   /\ (Head(workers[w].batch).payload.appointment_id = Some(a)
                          => sheet' = sheet)]_vars

\* C36: the attempts of a job never decrease and never exceed its
\* max_attempts, and a failed job has attempts >= max_attempts.
C36_AttemptsGrowUpToMax ==
    /\ [](\A j \in 1..Len(jobs) :
             /\ jobs[j].max_attempts >= 1
             /\ jobs[j].attempts >= 0
             /\ jobs[j].attempts <= jobs[j].max_attempts
             /\ jobs[j].status = "failed" => jobs[j].attempts >= jobs[j].max_attempts)
    /\ [][\A j \in 1..Len(jobs) : jobs'[j].attempts >= jobs[j].attempts]_vars

\* a sync_sheet job has failed for the eighth time and is failed, while the
\* job the sweep enqueued after it is being retried
C36_FailedAtMaxAttempts ==
    \E j, k \in 1..Len(jobs) :
        /\ jobs[j].status = "failed"
        /\ jobs[j].attempts = 8
        /\ jobs[j].max_attempts = 8
        /\ jobs[k].status = "queued"
        /\ jobs[k].attempts \in 1..7

(***************************************************************************)
(* Properties of redelivery, of freed slots and of tenants                 *)
(***************************************************************************)
\* C37: the pass of a message writes its record before anything else, also
\* when the appointment insert of a "yes" raises and the pass ends with the
\* conversation still in confirm; a later delivery of an identifier that
\* has a record is answered at once, is not dispatched and changes no
\* table: the transition of the failed pass is not tried again.
C37_FailedPassIsNotRetried ==
    /\ [][\A r \in ReqIds :
             (/\ requests[r].pc = "dispatch"
              /\ requests[r].sid # ""
              /\ requests'[r] # requests[r]) =>
                /\ messages'[requests[r].sid] > 0
                /\ (/\ conversations[ConvKey(r)].state = "confirm"
                    /\ requests[r].incoming = Txt("yes")
                    /\ appointments' = appointments) =>
                      /\ conversations' = conversations
                      /\ jobs' = jobs /\ sheet' = sheet
                      /\ requests'[r].pc = "none"]_vars
    /\ [][\A r \in ReqIds, s \in Sids \ {""} :
             (/\ requests[r].pc = "none"
              /\ requests'[r] # requests[r]
              /\ requests'[r].sid = s
              /\ messages[s] > 0) =>
                /\ requests'[r].pc = "none"
                /\ UNCHANGED <<messages, conversations, appointments, jobs, sheet>>]_vars

\* the clinic holds an appointment, u1 is asked to confirm another one, the
\* "yes" with identifier SM1 has its record and no second appointment, and
\* SM1 was delivered again and turned away
C37_RedeliveryTurnedAwayInConfirm ==
    /\ messages["SM1"] > 0
    /\ conversations[<<"c1", "u1">>].state = "confirm"
    /\ Len(appointments) = 1
    /\ \E r \in ReqIds : requests[r] = [NoRequest EXCEPT !.sid = "SM1", !.replay = TRUE]
    /\ \A r \in ReqIds : requests[r].pc = "none"

\* C38: once the Booked appointment of a slot is cancelled and no other
\* Booked appointment holds the slot, a user who answers the time prompt
\* with that time is asked to confirm, whether or not the cancelled
\* appointment had been appended to the sheet.
C38_CancelledSlotIsFreeAgain ==
    \A r \in ReqIds :
        LET d == conversations[ConvKey(r)].draft.date
            t == normalize_time_to_24h(requests[r].incoming)
        IN  (/\ requests[r].pc = "dispatch"
             /\ ~IsCommand(requests[r].incoming)
             /\ conversations[ConvKey(r)].state = "collect_time"
             /\ t # NoTime
             /\ \E a \in 1..Len(appointments) :
                   /\ appointments[a].clinic_id = requests[r].clinic_id
                   /\ appointments[a].date = d
                   /\ appointments[a].time = t
                   /\ appointments[a].status = "Cancelled"
             /\ ~\E a \in 1..Len(appointments) :
                   /\ appointments[a].clinic_id = requests[r].clinic_id
                   /\ appointments[a].date = d
                   /\ appointments[a].time = t
                   /\ appointments[a].status = "Booked") =>
               \A sheet_read \in SheetReads(requests[r]) :
                  webhook_reply(requests[r], "FAIL", sheet_read) =
                     "Confirm appointment on {date} at {time_24}? (yes/no)"

\* C39: tenants are isolated.  A time that no appointment of the addressed
\* clinic holds is not reported taken because of another clinic's
\* appointment or of the sheet row written for it, clinics that fall back to
\* the default sheet included; and the pass of a message addressed to one
\* clinic changes no conversation and no appointment of another clinic.
C39_TenantsAreIsolated ==
    /\ [](\A r \in ReqIds :
             LET d == conversations[ConvKey(r)].draft.date
                 t == normalize_time_to_24h(requests[r].incoming)
             IN  (/\ requests[r].pc = "dispatch"
                  /\ ~IsCommand(requests[r].incoming)
                  /\ conversations[ConvKey(r)].state = "collect_time"
                  /\ t = HHMM(14, 0)
                  /\ ~\E a \in 1..Len(appointments) :
                        /\ appointments[a].clinic_id = requests[r].clinic_id
                        /\ appointments[a].date = d
                        /\ appointments[a].time = t) =>
                    \A sheet_read \in SheetReads(requests[r]) :
                       webhook_reply(requests[r], "FAIL", sheet_read) =
                          "Confirm appointment on {date} at {time_24}? (yes/no)")
    /\ [][\A r \in ReqIds :
             (requests[r].pc \in {"dispatch", "confirm_sync"} /\ requests'[r] # requests[r]) =>
                /\ \A k \in DOMAIN conversations :
                      k[1] # requests[r].clinic_id => conversations'[k] = conversations[k]
                /\ \A a \in 1..Len(appointments) :
                      appointments[a].clinic_id # requests[r].clinic_id
                         => appointments'[a] = appointments[a]
                /\ \A a \in (Len(appointments) + 1)..Len(appointments') :
                      appointments'[a].clinic_id = requests[r].clinic_id]_vars

=============================================================================
